---- MODULE Spec2Model ----
(***************************************************************************)
(* A state-machine model of the download orchestration engine of           *)
(* mediafire_download (src/mediafire_download/api/api.py): the API query   *)
(* retry loop, the chunked folder-content query, the construction of the   *)
(* path mapping, the bounded-concurrency task batch and the per-file       *)
(* download state machine.                                                 *)
(***************************************************************************)
EXTENDS Integers, Sequences, FiniteSets, TLC

(***************************************************************************)
(* Bounds of the model.                                                    *)
(***************************************************************************)
MaxRetries == 2
MaxFree == 2
MaxChunks == 3
MaxFiles == 2
MaxBody == 2
MaxPrompts == 2
MaxTasks == 3
MaxJobs == 2
MaxSegments == 4

(***************************************************************************)
(* State.                                                                  *)
(***************************************************************************)
VARIABLES
    retries,    \* Mediafire._retries
    aborted,    \* Mediafire._aborted
    net,        \* the answers the network and the server may give to an API request
    srv,        \* what the remote service holds: folders, files and their listings
    q,          \* the frame of the running _query_api call
    qh,         \* what the running _query_api call did so far (history counters)
    cq,         \* the frame of the running _wrap_chunked_api_folder_query call
    bt,         \* the frame of the running _build_file_system call
    opt,        \* the options of the run: _download_mode, _noconfirm, _max_jobs, _filters,
                \* _nodelay
    fs,         \* the local file system under the destination directory
    dl,         \* the frames of the _download calls, by task
    du,         \* the frame of the running download_url call
    sem,        \* the asyncio.Semaphore of _download_folder
    fold,       \* the frame of the running _download_folder call
    dnet        \* the answers the network and the server may give to a download request

vars == <<retries, aborted, net, srv, q, qh, cq, bt, opt, fs, dl, du, sem, fold, dnet>>

(***************************************************************************)
(* Exceptions.  An exception is a record of its class and, for a           *)
(* RequestError, its code.                                                 *)
(***************************************************************************)
NoExc == [cls |-> "none", code |-> "none"]

Exc(cls) == [cls |-> cls, code |-> "none"]

\* The members of the enumeration MediafireErrorCodes.
MediafireErrorCodes == {"ESUCCESS", "EUNK", "MEDIAFIRE_ERROR_CODE_GENERIC"}

\* `raise RequestError(MediafireErrorCodes.<name>)`: the attribute lookup on
\* the enumeration comes first and fails for a name that is no member.
RaiseRequestError_AnyName(name) ==
    [cls |-> "RequestError", code |-> name]

RaiseRequestError(name) ==
    IF name \in MediafireErrorCodes
    THEN [cls |-> "RequestError", code |-> name]
    ELSE Exc("AttributeError")

\* The classes named in the isinstance test of both retry loops.
TransportClasses == {"ClientPayloadError", "ClientResponseError", "ClientConnectorError"}

\* HTTP statuses a response may carry; 0 stands for "r is None".
Statuses == {200, 403, 500}

NoResponse == 0

(***************************************************************************)
(* _wrap_request.  A log is the sequence of what a call did on the         *)
(* network: the calls of RequestQueue.until_ready that completed and the   *)
(* requests that were sent, each with its URL.                             *)
(***************************************************************************)
\* A _wrap_request that sends the request without asking the queue.
WrapRequest_NoQueue(nodelay, log, url) ==
    Append(log, [op |-> "request", url |-> url])

\* Lines 147-151: the queue is waited for unless rate limiting is disabled,
\* then the request is sent.
WrapRequest(nodelay, log, url) ==
    IF nodelay = FALSE
    THEN log \o <<[op |-> "until_ready", url |-> url], [op |-> "request", url |-> url]>>
    ELSE Append(log, [op |-> "request", url |-> url])

(***************************************************************************)
(* _query_api                                                              *)
(***************************************************************************)
\* What `await r.json()` may give: an exception raised while reading or
\* decoding the body, or a decoded JSON value.
JsonBodies ==
    {[kind |-> "raise", exc |-> Exc(x)] :
        x \in {"ClientPayloadError", "ClientResponseError", "ValueError", "TimeoutError"}}
    \cup {[kind |-> "value", isdict |-> FALSE, keys |-> {}]}
    \cup {[kind |-> "value", isdict |-> TRUE, keys |-> K] : K \in SUBSET {"error", "response"}}

\* No body was read: the request itself raised.
NoBody == [kind |-> "none"]

\* Lines 163-171: the classification of the decoded JSON value; NoExc means
\* `return jresp`.
ClassifyJson(jresp) ==
    IF ~jresp.isdict THEN RaiseRequestError("EUNKNOWNRESPONSE")
    ELSE IF jresp.keys # {} /\ "error" \in jresp.keys THEN RaiseRequestError("ESESSIONTOKEN")
    ELSE IF jresp.keys # {} /\ "response" \in jresp.keys THEN NoExc
    ELSE RaiseRequestError("EUNK")

\* What one pass through the try block of _query_api may come to: the
\* request itself raises (r stays None), or a response of some status arrives
\* and its body is read.
QueryOutcomes ==
    {[r |-> NoResponse, body |-> NoBody, exc |-> Exc(x)] :
        x \in {"ClientConnectorError", "TimeoutError"}}
    \cup {[r |-> s, body |-> b, exc |-> IF b.kind = "raise" THEN b.exc ELSE ClassifyJson(b)] :
            s \in Statuses, b \in JsonBodies}

\* A retry test that lets a 403 response count when the exception is no
\* transport-class error, and never counts a RequestError.
CountsTowardRetry_NoRequestError(r, e) ==
    e.cls \notin TransportClasses \cup {"RequestError"}

\* Line 177 (and lines 444-445 of _download): whether the failed attempt
\* counts against the retry budget.
CountsTowardRetry(r, e) ==
    (r = NoResponse \/ r # 403) /\ e.cls \notin TransportClasses

\* Lines 174-176: a RequestError of a code other than EUNK leaves the loop.
BreaksLoop(e) ==
    e.cls = "RequestError" /\ e.code \notin {"EUNK"}

\* A loop test that is off by one.
LoopContinues_OffByOne(try_num) ==
    try_num <= retries + 1

\* Line 155: the loop test.
LoopContinues(try_num) ==
    try_num <= retries

\* No endpoint: no call is running.
NoEndpoint == [api |-> "none"]

\* Lines 154-156: the frame of a call that has just started.
QueryStart(endpoint) ==
    [pc |-> "while", endpoint |-> endpoint, try_num |-> 0, r |-> NoResponse,
     body |-> NoBody, exc |-> NoExc, result |-> "none"]

\* No _query_api call is running.
QueryIdle ==
    [pc |-> "idle", endpoint |-> NoEndpoint, try_num |-> 0, r |-> NoResponse,
     body |-> NoBody, exc |-> NoExc, result |-> "none"]

\* The history of a call, kept for the properties: the GET requests issued
\* (their number, and the log of _wrap_request),
\* the sleeps slept, the failed attempts, those of them that ended with a
\* 403 response or a transport-class error, and those that ended with the
\* generic EUNK RequestError on a response of another status than 403.
QueryHistStart ==
    [reqs |-> 0, sleeps |-> 0, free |-> 0, fails |-> 0, eunk |-> 0, log |-> <<>>]

FreeFailure(o) ==
    o.exc # NoExc /\ (o.r = 403 \/ o.exc.cls \in TransportClasses)

EunkFailure(o) ==
    o.exc = [cls |-> "RequestError", code |-> "EUNK"] /\ o.r # 403

\* Lines 155-171: the loop test, the request and the reading of its answer.
QAttempt ==
    /\ q.pc = "while"
    /\ LoopContinues(q.try_num)
    /\ \E o \in net :
        /\ FreeFailure(o) => qh.free < MaxFree
        /\ q' = [q EXCEPT !.r = o.r, !.body = o.body, !.exc = o.exc,
                          !.pc = IF o.exc = NoExc THEN "returned" ELSE "except",
                          !.result = IF o.exc = NoExc THEN "jresp" ELSE "none"]
        /\ qh' = [qh EXCEPT !.reqs = @ + 1,
                            !.log = WrapRequest(opt.nodelay, @, q.endpoint),
                            !.fails = IF o.exc = NoExc THEN @ ELSE @ + 1,
                            !.free = IF FreeFailure(o) THEN @ + 1 ELSE @,
                            !.eunk = IF EunkFailure(o) THEN @ + 1 ELSE @]
    /\ UNCHANGED <<retries, aborted, net, srv, cq, bt, opt, fs, dl, du, sem, fold, dnet>>

\* Lines 172-186: the except clause, up to the sleep.
QExcept ==
    /\ q.pc = "except"
    /\ IF BreaksLoop(q.exc)
       THEN q' = [q EXCEPT !.pc = "break"]
       ELSE LET n == IF CountsTowardRetry(q.r, q.exc) THEN q.try_num + 1 ELSE q.try_num
            IN  q' = [q EXCEPT !.try_num = n,
                               !.pc = IF aborted THEN "returned"
                                      ELSE IF LoopContinues(n) THEN "sleep" ELSE "while",
                               !.result = IF aborted THEN "zero" ELSE "none"]
    /\ UNCHANGED <<retries, aborted, net, srv, qh, cq, bt, opt, fs, dl, du, sem, fold, dnet>>

\* Line 185: the backoff sleep has passed.
QSleep ==
    /\ q.pc = "sleep"
    /\ q' = [q EXCEPT !.pc = "while"]
    /\ qh' = [qh EXCEPT !.sleeps = @ + 1]
    /\ UNCHANGED <<retries, aborted, net, srv, cq, bt, opt, fs, dl, du, sem, fold, dnet>>

\* Lines 188-189: the loop was left without a return.
QRaise ==
    /\ \/ q.pc = "while" /\ ~LoopContinues(q.try_num)
       \/ q.pc = "break"
    /\ q' = [q EXCEPT !.pc = "raised", !.result = "ConnectionError"]
    /\ UNCHANGED <<retries, aborted, net, srv, qh, cq, bt, opt, fs, dl, du, sem, fold, dnet>>

\* Lines 119-121.
Abort ==
    /\ ~aborted
    /\ aborted' = TRUE
    /\ UNCHANGED <<retries, net, srv, q, qh, cq, bt, opt, fs, dl, du, sem, fold, dnet>>

(***************************************************************************)
(* The remote service.  A listing is the sequence of the chunks the        *)
(* service answers with: the entries of each chunk and its more_chunks     *)
(* flag ("absent" when the answer carries no such key).                    *)
(***************************************************************************)
NoServer == [root |-> [folderkey |-> 0], files |-> <<>>, folders |-> <<>>, info |-> <<>>]

\* The dict.get of Python.
Get(d, k, default) ==
    IF k \in DOMAIN d THEN d[k] ELSE default

\* The folder_content object the service sends for a chunk of a listing; a
\* chunk past the end of the listing is empty and reports no more chunks.
FolderContent(content_type, folder_key, chunk_num) ==
    LET lst == Get(srv[content_type], folder_key, <<>>)
        ch == IF chunk_num \in 1..Len(lst) THEN lst[chunk_num]
              ELSE [entries |-> <<>>, more |-> "no"]
        base == (content_type :> ch.entries)
                @@ [chunk_number |-> chunk_num, content_type |-> content_type,
                    folderkey |-> folder_key]
    IN  IF ch.more = "absent" THEN base ELSE base @@ [more_chunks |-> ch.more]

\* The `response` object of the envelope the service sends to an endpoint.
ServerResponse(endpoint) ==
    [action |-> endpoint.api, result |-> "Success",
     folder_content |-> FolderContent(endpoint.content_type, endpoint.folder_key,
                                      endpoint.chunk)]

(***************************************************************************)
(* _wrap_chunked_api_folder_query                                          *)
(***************************************************************************)
\* Line 204: results = None.
NoResults == [none |-> TRUE]

\* Line 211: results.update(**response), the dict.update of Python: every
\* key of the response replaces the value held under that key.
DictUpdate(results, response) ==
    [k \in DOMAIN results \cup DOMAIN response |->
        IF k \in DOMAIN response THEN response[k] ELSE results[k]]

\* Lines 210-213.
Merge(results, response) ==
    IF results # NoResults THEN DictUpdate(results, response) ELSE response

\* A test that takes a missing more_chunks key for "yes".
MoreChunks_DefaultYes(response) ==
    Get(response.folder_content, "more_chunks", "yes") = "yes"

\* Line 215.
MoreChunks(response) ==
    Get(response.folder_content, "more_chunks", "no") = "yes"

\* Lines 194-198: the endpoint of _query_folder_info with get_content.
ContentEndpoint(content_type, folder_key, chunk_num) ==
    [api |-> "folder/get_content", content_type |-> content_type,
     folder_key |-> folder_key, chunk |-> chunk_num]

\* Lines 204-206: the frame of a call that has just started.  log and got
\* are its history: the requests made and answers received, in order, and
\* the entries the answers delivered.
ChunkStart(content_type, folder_key) ==
    [pc |-> "while", content_type |-> content_type, folder_key |-> folder_key,
     chunk_num |-> 1, more_chunks |-> TRUE, results |-> NoResults, exc |-> NoExc,
     log |-> <<>>, got |-> {}]

\* No _wrap_chunked_api_folder_query call is running.
ChunkIdle ==
    [pc |-> "idle", content_type |-> "files", folder_key |-> 0,
     chunk_num |-> 1, more_chunks |-> TRUE, results |-> NoResults, exc |-> NoExc,
     log |-> <<>>, got |-> {}]

Range(s) == {s[i] : i \in DOMAIN s}

\* Lines 207-208: the loop test and the call of _query_folder_info.
CQuery ==
    /\ cq.pc = "while"
    /\ cq.more_chunks
    /\ q.pc = "idle"
    /\ q' = QueryStart(ContentEndpoint(cq.content_type, cq.folder_key, cq.chunk_num))
    /\ qh' = QueryHistStart
    /\ cq' = [cq EXCEPT !.pc = "await",
                        !.log = Append(@, [ev |-> "req", chunk |-> cq.chunk_num])]
    /\ UNCHANGED <<retries, aborted, net, srv, bt, opt, fs, dl, du, sem, fold, dnet>>

\* Lines 208-217: _query_api returned; the answer is merged, and the call
\* returns when it reports no more chunks.  The sentinel 0 that _query_api
\* returns after an abort is no dict: subscripting it raises TypeError.
CMerge ==
    /\ cq.pc = "await"
    /\ q.pc = "returned"
    /\ q' = QueryIdle
    /\ qh' = QueryHistStart
    /\ IF q.result = "zero"
       THEN cq' = [cq EXCEPT !.pc = "raised", !.exc = Exc("TypeError")]
       ELSE LET response == ServerResponse(q.endpoint)
                more == MoreChunks(response)
                fc == response.folder_content
            IN  cq' = [cq EXCEPT !.results = Merge(cq.results, response),
                                 !.chunk_num = @ + 1,
                                 !.more_chunks = more,
                                 !.pc = IF more THEN "while" ELSE "returned",
                                 !.log = Append(@, [ev |-> "resp", chunk |-> fc.chunk_number,
                                                    reported |-> Get(fc, "more_chunks", "absent")]),
                                 !.got = @ \cup Range(fc[cq.content_type])]
    /\ UNCHANGED <<retries, aborted, net, srv, bt, opt, fs, dl, du, sem, fold, dnet>>

\* A chunk loop that catches the error of _query_api and sends the query
\* again.
CRaise_Retrying ==
    /\ cq.pc = "await"
    /\ q.pc = "raised"
    /\ q' = QueryStart(q.endpoint)
    /\ qh' = QueryHistStart
    /\ UNCHANGED <<retries, aborted, net, srv, cq, bt, opt, fs, dl, du, sem, fold, dnet>>

\* Line 208: _query_api raised; nothing here catches it.
CRaise ==
    /\ cq.pc = "await"
    /\ q.pc = "raised"
    /\ q' = QueryIdle
    /\ qh' = QueryHistStart
    /\ cq' = [cq EXCEPT !.pc = "raised", !.exc = Exc(q.result)]
    /\ UNCHANGED <<retries, aborted, net, srv, bt, opt, fs, dl, du, sem, fold, dnet>>

(***************************************************************************)
(* Names and paths.  A name is the sequence of its character codes (32 is  *)
(* the space); a path is the sequence of its components, as pathlib keeps  *)
(* it.                                                                     *)
(***************************************************************************)
IsSpace(ch) == ch = 32

RECURSIVE LStrip(_)
LStrip(name) ==
    IF name # <<>> /\ IsSpace(Head(name)) THEN LStrip(Tail(name)) ELSE name

RECURSIVE RStrip(_)
RStrip(name) ==
    IF name # <<>> /\ IsSpace(name[Len(name)])
    THEN RStrip(SubSeq(name, 1, Len(name) - 1))
    ELSE name

\* str.strip().
Strip(name) == RStrip(LStrip(name))

\* PurePath.__truediv__ with a name that holds no separator: an empty name
\* adds no component.
Join(path, name) ==
    IF name = <<>> THEN path ELSE Append(path, name)

\* PurePath.parent of a path of at least two components.
Parent(path) ==
    SubSeq(path, 1, Len(path) - 1)

\* The order of Python on str and on the lists of components that
\* PurePath.__lt__ compares: the first place where the two differ decides,
\* and a proper prefix comes first.
\* str.__lt__.
RECURSIVE NameLess(_, _)
NameLess(s, t) ==
    IF t = <<>> THEN FALSE
    ELSE IF s = <<>> THEN TRUE
    ELSE IF Head(s) = Head(t) THEN NameLess(Tail(s), Tail(t))
    ELSE Head(s) < Head(t)

\* PurePath.__lt__.
RECURSIVE PathLess(_, _)
PathLess(s, t) ==
    IF t = <<>> THEN FALSE
    ELSE IF s = <<>> THEN TRUE
    ELSE IF Head(s) = Head(t) THEN PathLess(Tail(s), Tail(t))
    ELSE NameLess(Head(s), Head(t))

\* sorted() on a list of paths without duplicates.
RECURSIVE InsertSorted(_, _)
InsertSorted(sorted, p) ==
    IF sorted = <<>> THEN <<p>>
    ELSE IF PathLess(p, Head(sorted)) THEN <<p>> \o sorted
    ELSE <<Head(sorted)>> \o InsertSorted(Tail(sorted), p)

RECURSIVE SortPathsFrom(_, _)
SortPathsFrom(acc, paths) ==
    IF paths = <<>> THEN acc
    ELSE SortPathsFrom(InsertSorted(acc, Head(paths)), Tail(paths))

\* A sort that leaves the keys in the order of their insertion.
SortPaths_InsertionOrder(paths) == paths

SortPaths(paths) == SortPathsFrom(<<>>, paths)

\* options['dest_base'].
DestBase == << <<100>> >>

(***************************************************************************)
(* _build_file_system.  A mapping (a dict of Python) is the sequence of    *)
(* its items in the order of insertion.                                    *)
(***************************************************************************)
HasKey(m, k) == \E i \in DOMAIN m : m[i].k = k

Lookup(m, k) == m[CHOOSE i \in DOMAIN m : m[i].k = k].v

\* m[k] = v: a key already held keeps its place.
DictSet(m, k, v) ==
    IF HasKey(m, k)
    THEN [i \in DOMAIN m |-> IF m[i].k = k THEN [k |-> k, v |-> v] ELSE m[i]]
    ELSE Append(m, [k |-> k, v |-> v])

Keys(m) == [i \in DOMAIN m |-> m[i].k]

\* `'filename' in node`, the test of line 284 that tells a file from a folder.
IsFileNode(node) == "filename" \in DOMAIN node

\* Lines 204-217 as a function of the listing: the result of
\* _wrap_chunked_api_folder_query when every query is answered.
RECURSIVE ChunkLoop(_, _, _, _)
ChunkLoop(content_type, folder_key, chunk_num, results) ==
    LET response == ServerResponse(ContentEndpoint(content_type, folder_key, chunk_num))
        merged == Merge(results, response)
    IN  IF MoreChunks(response)
        THEN ChunkLoop(content_type, folder_key, chunk_num + 1, merged)
        ELSE merged

ChunkedResult(content_type, folder_key) ==
    ChunkLoop(content_type, folder_key, 1, NoResults)

\* Lines 496-498.
RECURSIVE InsertFiles(_, _, _)
InsertFiles(files, parent_folder_path, path_mapping) ==
    IF files = <<>> THEN path_mapping
    ELSE InsertFiles(Tail(files), parent_folder_path,
                     DictSet(path_mapping,
                             Join(parent_folder_path, Strip(Head(files).filename)),
                             Head(files)))

\* Lines 492-504.
RECURSIVE BuildPathTree(_, _, _)
RECURSIVE InsertFolders(_, _, _)
InsertFolders(folders, parent_folder_path, path_mapping) ==
    IF folders = <<>> THEN path_mapping
    ELSE LET folder_info == Head(folders)
             folder_path == Join(parent_folder_path, Strip(folder_info.name))
         IN  InsertFolders(Tail(folders), parent_folder_path,
                           BuildPathTree(folder_info, folder_path,
                                         DictSet(path_mapping, folder_path, folder_info)))

BuildPathTree(parent_folder, parent_folder_path, path_mapping) ==
    LET folder_key == parent_folder.folderkey
        with_files ==
            IF Get(parent_folder, "file_count", 0) > 0
            THEN InsertFiles(Get(ChunkedResult("files", folder_key).folder_content,
                                 "files", <<>>),
                             parent_folder_path, path_mapping)
            ELSE path_mapping
    IN  IF Get(parent_folder, "folder_count", 0) > 0
        THEN InsertFolders(Get(ChunkedResult("folders", folder_key).folder_content,
                               "folders", <<>>),
                           parent_folder_path, with_files)
        ELSE with_files

\* Line 507.
RootPath(root_folder) ==
    Join(DestBase, Strip(root_folder.name))

\* Line 511.
SortedMapping(path_mapping) ==
    LET keys == SortPaths(Keys(path_mapping))
    IN  [i \in DOMAIN keys |-> [k |-> keys[i], v |-> Lookup(path_mapping, keys[i])]]

\* Lines 506-512.
BuildFileSystem(root_folder) ==
    LET root_path == RootPath(root_folder)
    IN  SortedMapping(BuildPathTree(root_folder, root_path,
                                    <<[k |-> root_path, v |-> root_folder]>>))

\* No _build_file_system call is running.
BuildIdle == [pc |-> "idle", k |-> 0, sorted_mapping |-> <<>>, exc |-> NoExc]

\* Lines 491-512, with every query answered.
BuildAnswered ==
    /\ bt.pc = "start"
    /\ bt' = [bt EXCEPT !.pc = "returned", !.sorted_mapping = BuildFileSystem(srv.root)]
    /\ UNCHANGED <<retries, aborted, net, srv, q, qh, cq, opt, fs, dl, du, sem, fold, dnet>>

(***************************************************************************)
(* Options and the local file system.  A file is its content, a sequence   *)
(* of bytes.                                                               *)
(***************************************************************************)
DownloadMode == {"full", "touch", "skip"}

NoOptions ==
    [download_mode |-> "full", noconfirm |-> FALSE, max_jobs |-> 1, filters |-> {},
     nodelay |-> FALSE]

NoFile == [exists |-> FALSE]

NoFiles == [files |-> <<>>, dirs |-> {}]

\* Path.is_file().
IsFile(f) == f.exists

\* Path.stat().st_size.
StSize(f) == Len(f.content)

FileAt(fsys, path) ==
    IF path \in DOMAIN fsys.files THEN fsys.files[path] ELSE NoFile

SetFile(fsys, path, f) ==
    [fsys EXCEPT !.files = (path :> f) @@ fsys.files]

\* Path.mkdir(parents=True, exist_ok=True).
Mkdir(fsys, path) ==
    [fsys EXCEPT !.dirs = @ \cup {SubSeq(path, 1, n) : n \in 1..Len(path)}]

\* Path.touch(exist_ok=True): creates an empty file, or sets the
\* modification time of the file that exists and leaves its content.
Touch_OnlyExisting(f) == f

Touch(f) ==
    IF IsFile(f) THEN f
    ELSE [exists |-> TRUE, content |-> <<>>]

\* open(path, 'wb'): creates the file or truncates it.
OpenWb_Append(f) ==
    IF IsFile(f) THEN f ELSE [exists |-> TRUE, content |-> <<>>]

OpenWb(f) ==
    [exists |-> TRUE, content |-> <<>>]

\* file.write(chunk) at the end of the file.
WriteChunk(f, chunk) ==
    [f EXCEPT !.content = @ \o chunk]

\* pathlib.Path(), the path of no component.
EmptyPath == <<>>

(***************************************************************************)
(* The download network.  A body is the sequence of the chunks that        *)
(* iter_chunked yields, none of them empty.                                *)
(***************************************************************************)
Bytes == {1}

Chunks == {<<b>> : b \in Bytes}

Bodies == UNION {[1..n -> Chunks] : n \in 0..MaxBody}

\* What may fail before a response exists, while its content is read and
\* while its content is iterated.
ConnectFailures == {"ClientConnectorError", "TimeoutError"}

ReadFailures == {"ClientPayloadError", "TimeoutError"}

\* The answers to the request of the file URL: no response at all, or a
\* response with its status, whether reading its content fails, whether it
\* carries Content-Disposition, whether its Content-Encoding is gzip,
\* whether its page holds the link of the download server, and its body.
FirstAnswer(raise, status, read, cd, gzip, link, body) ==
    [raise |-> raise, status |-> status, read |-> read, cd |-> cd,
     gzip |-> gzip, link |-> link, body |-> body]

FirstAnswers ==
    {FirstAnswer(x, NoResponse, "none", FALSE, FALSE, FALSE, <<>>) : x \in ConnectFailures}
    \cup {FirstAnswer("none", s, "none", FALSE, FALSE, FALSE, <<>>) : s \in {403, 500}}
    \cup {FirstAnswer("none", 200, x, FALSE, FALSE, FALSE, <<>>) : x \in ReadFailures}
    \cup {FirstAnswer("none", 200, "none", TRUE, FALSE, FALSE, b) : b \in Bodies}
    \cup {FirstAnswer("none", 200, "none", FALSE, g, l, <<>>) : g \in BOOLEAN, l \in BOOLEAN}

\* The answers to the request of the link found in the page.
SecondAnswers ==
    {[raise |-> x, status |-> NoResponse, body |-> <<>>] : x \in ConnectFailures}
    \cup {[raise |-> "none", status |-> s, body |-> b] : s \in Statuses, b \in Bodies}

\* dnet holds the answers that may come to the two requests, the failures
\* that may end the iteration of a body, the file URLs whose download
\* may fail at all (flaky), and whether the failures that spare the retry
\* budget may go on without end (endless) or come MaxFree times to a call
\* at most.
NoDownloadNet == [first |-> {}, second |-> {}, stream |-> {}, flaky |-> {}, endless |-> FALSE]

AnyDownloadNet(urls) ==
    [first |-> FirstAnswers, second |-> SecondAnswers, stream |-> ReadFailures,
     flaky |-> urls, endless |-> FALSE]

(***************************************************************************)
(* asyncio.Semaphore: its value and the tasks that wait for it, first come *)
(* first served.  A release with a task waiting passes the permit to the   *)
(* first of them.                                                          *)
(***************************************************************************)
NoSemaphore == [value |-> 0, waiters |-> <<>>]

Semaphore(value) == [value |-> value, waiters |-> <<>>]

\* Semaphore.locked().
Locked_Never(s) == FALSE

Locked(s) == s.value = 0 \/ s.waiters # <<>>

\* Semaphore.release(): the semaphore afterwards, and the tasks it wakes.
Release(s) ==
    IF s.waiters # <<>> THEN [s EXCEPT !.waiters = Tail(@)]
    ELSE [s EXCEPT !.value = @ + 1]

Woken(s) ==
    IF s.waiters # <<>> THEN {Head(s.waiters)} ELSE {}

(***************************************************************************)
(* _download.  A frame holds the position of the call (pc), its locals and *)
(* what the call did so far: requests issued by its latest attempt (reqs:  *)
(* 0 until the first request of the call; log: the log of _wrap_request    *)
(* for them), prompts asked and the answer last typed (ans, which nothing  *)
(* reads once the loop of line 404 is entered and the first request        *)
(* forgets), failures and                                                  *)
(* resets that left the budget untouched (free), the resets among them     *)
(* (resets), the file                                                      *)
(* found at the target when the call began (entry), whether the call       *)
(* touched, opened or wrote the target (modified), the body of the         *)
(* response it last saved (sent) and the chunks written since the target   *)
(* was last opened (written).                                              *)
(***************************************************************************)
DownloadParams(num, num_orig, file_url, output_path, expected_size) ==
    [num |-> num, num_orig |-> num_orig, file_url |-> file_url,
     output_path |-> output_path, expected_size |-> expected_size]

NoDownloads == <<>>

DownloadFrame(pc, params, gated) ==
    [pc |-> pc, params |-> params, gated |-> gated, try_num |-> 0,
     r |-> NoResponse, exc |-> NoExc, stream |-> <<>>, live |-> FALSE, ret |-> EmptyPath,
     entry |-> NoFile, modified |-> FALSE, sent |-> <<>>, reqs |-> 0, log |-> <<>>,
     prompts |-> 0, free |-> 0, resets |-> 0, ans |-> <<>>, written |-> <<>>]

\* input() blocks the event loop: while a call waits for an answer no other
\* coroutine runs.
Runnable(t) ==
    \A u \in DOMAIN dl : dl[u].pc = "prompt" => u = t

\* Line 444: the failure consumes a slot of the retry budget.
DownloadCountsTowardRetry_IgnoreStatus(r, e) ==
    e.cls \notin TransportClasses

DownloadCountsTowardRetry(r, e) ==
    (r = NoResponse \/ r \notin {403}) /\ e.cls \notin TransportClasses

\* Line 405.
DownloadLoopContinues(try_num) == try_num <= retries

\* The str `in` of Python: a is a substring of s.
InStr(a, s) ==
    \E i \in 0..(Len(s) - Len(a)) : SubSeq(s, i + 1, i + Len(a)) = a

\* What the user may type at the prompt.
Answers ==
    {<<>>, <<"y">>, <<"Y">>, <<"1">>, <<"n">>, <<"N">>, <<"0">>, <<"x">>,
     <<"0", "1">>, <<"Y", "n">>}

\* A return of _download by task t: within `async with semaphore` (line
\* 302) the permit is released and the first waiting task is woken.
Returns(t, frame, ret) ==
    LET done == [dl EXCEPT ![t] = [frame EXCEPT !.pc = "done", !.ret = ret]]
    IN  IF frame.gated
        THEN /\ sem' = Release(sem)
             /\ dl' = [u \in DOMAIN dl |->
                         IF u \in Woken(sem) THEN [done[u] EXCEPT !.pc = "enter"]
                         ELSE done[u]]
        ELSE /\ sem' = sem
             /\ dl' = done

\* Lines 393-404: the directory is made; touch mode touches the file and
\* returns, full mode enters the retry loop.
Prepare(t, frame) ==
    LET path == frame.params.output_path
        made == Mkdir(fs, Parent(path))
    IN  IF opt.download_mode = "touch"
        THEN /\ fs' = SetFile(made, path, Touch(FileAt(made, path)))
             /\ Returns(t, [frame EXCEPT !.modified = TRUE], path)
        ELSE /\ fs' = made
             /\ dl' = [dl EXCEPT ![t] = [frame EXCEPT !.pc = "while", !.try_num = 0]]
             /\ sem' = sem

\* Line 378: the file that exists is looked at, unless touch mode finds it
\* empty.
ExistingFileCounts_NeverInTouch(touch, existing_size) ==
    ~touch

ExistingFileCounts(touch, existing_size) ==
    ~(touch /\ existing_size = 0)

\* Lines 363-366: skip mode and the abort flag end the call before anything
\* else is looked at.
ShortCircuits_SkipOnly == opt.download_mode = "skip"

ShortCircuits == opt.download_mode = "skip" \/ aborted

\* Lines 363-386, up to the first answer of the user.
DEnter(t) ==
    /\ dl[t].pc = "enter"
    /\ Runnable(t)
    /\ LET path == dl[t].params.output_path
           f == FileAt(fs, path)
           touch == opt.download_mode = "touch"
           frame == [dl[t] EXCEPT !.entry = f]
       IN  IF ShortCircuits
           THEN fs' = fs /\ Returns(t, frame, path)
           ELSE IF IsFile(f) /\ ExistingFileCounts(touch, StSize(f))
           THEN IF opt.noconfirm /\ StSize(f) = dl[t].params.expected_size
                THEN fs' = fs /\ Returns(t, frame, path)
                ELSE IF opt.noconfirm
                THEN Prepare(t, frame)
                ELSE /\ fs' = fs
                     /\ sem' = sem
                     /\ dl' = [dl EXCEPT ![t] = [frame EXCEPT !.pc = "prompt"]]
           ELSE Prepare(t, frame)
    /\ UNCHANGED <<retries, aborted, net, srv, q, qh, cq, bt, opt, du, fold, dnet>>

\* Lines 385-391: one answer of the user.
DPrompt(t) ==
    /\ dl[t].pc = "prompt"
    /\ \E ans \in Answers :
        LET frame == [dl[t] EXCEPT !.prompts = @ + 1, !.ans = ans]
        IN  IF InStr(ans, <<"n", "N", "0">>)
            THEN fs' = fs /\ Returns(t, frame, frame.params.output_path)
            ELSE IF InStr(ans, <<"y", "Y", "n", "N", "0", "1">>)
            THEN Prepare(t, frame)
            ELSE /\ dl[t].prompts + 1 < MaxPrompts
                 /\ fs' = fs
                 /\ sem' = sem
                 /\ dl' = [dl EXCEPT ![t] = frame]
    /\ UNCHANGED <<retries, aborted, net, srv, q, qh, cq, bt, opt, du, fold, dnet>>

\* Line 422: the link that the page of the file URL holds.
RealUrl(file_url) == <<"download", file_url>>

\* Lines 408-424: what the answer to the request of the file URL leads to.
FirstStep(o) ==
    IF o.raise # "none"
    THEN [next |-> "except", r |-> NoResponse, exc |-> Exc(o.raise)]
    ELSE IF o.status >= 400
    THEN [next |-> "except", r |-> o.status, exc |-> Exc("ClientResponseError")]
    ELSE IF o.read # "none"
    THEN [next |-> "except", r |-> o.status, exc |-> Exc(o.read)]
    ELSE IF o.cd
    THEN [next |-> "open", r |-> o.status, exc |-> NoExc]
    ELSE IF ~o.gzip
    THEN [next |-> "except", r |-> o.status, exc |-> Exc("ValueError")]
    ELSE IF ~o.link
    THEN [next |-> "except", r |-> o.status, exc |-> Exc("TypeError")]
    ELSE [next |-> "resolve", r |-> o.status, exc |-> NoExc]

\* The events of a call that spared its budget are counted up to MaxFree.
Tally(n) == IF n < MaxFree THEN n + 1 ELSE MaxFree

\* A failure is possible in the download of a flaky URL; one that leaves
\* the budget untouched, while fewer than MaxFree of them happened in the
\* call or without that limit.
MayFail(t, r, e) ==
    /\ dl[t].params.file_url \in dnet.flaky
    /\ ~DownloadCountsTowardRetry(r, e) => (dnet.endless \/ dl[t].free < MaxFree)

\* Lines 405-424: the loop test and the request of the file URL.  The
\* content of the response is read whole (line 410), so that nothing is
\* left for iter_chunked.
DRequest(t) ==
    /\ dl[t].pc = "while"
    /\ Runnable(t)
    /\ DownloadLoopContinues(dl[t].try_num)
    /\ \E o \in dnet.first :
        LET st == FirstStep(o)
        IN  /\ st.next = "except" => MayFail(t, st.r, st.exc)
            /\ dl' = [dl EXCEPT ![t] = [@ EXCEPT !.pc = st.next, !.r = st.r, !.exc = st.exc,
                                                 !.stream = <<>>, !.live = FALSE,
                                                 !.sent = o.body, !.reqs = 1,
                                                 !.ans = <<>>,
                                                 !.log = WrapRequest(opt.nodelay, <<>>,
                                                            dl[t].params.file_url)]]
    /\ UNCHANGED <<retries, aborted, net, srv, q, qh, cq, bt, opt, fs, du, sem, fold, dnet>>

\* Lines 423-426: the request of the link found in the page; the status of
\* its response is not looked at.
DResolve(t) ==
    /\ dl[t].pc = "resolve"
    /\ Runnable(t)
    /\ \E o \in dnet.second :
        IF o.raise # "none"
        THEN /\ MayFail(t, dl[t].r, Exc(o.raise))
             /\ dl' = [dl EXCEPT ![t] = [@ EXCEPT !.pc = "except", !.exc = Exc(o.raise),
                                                  !.reqs = @ + 1,
                                                  !.log = WrapRequest(opt.nodelay, @,
                                                             RealUrl(dl[t].params.file_url))]]
        ELSE /\ (o.body # <<>> /\ dl[t].try_num # 0) =>
                    (dnet.endless \/ dl[t].free < MaxFree)
             /\ dl' = [dl EXCEPT ![t] = [@ EXCEPT !.pc = "open", !.r = o.status,
                                                  !.stream = o.body, !.live = TRUE,
                                                  !.sent = o.body, !.reqs = @ + 1,
                                                  !.log = WrapRequest(opt.nodelay, @,
                                                             RealUrl(dl[t].params.file_url))]]
    /\ UNCHANGED <<retries, aborted, net, srv, q, qh, cq, bt, opt, fs, du, sem, fold, dnet>>

\* Line 430: the target is opened for writing.
DOpen(t) ==
    /\ dl[t].pc = "open"
    /\ Runnable(t)
    /\ LET path == dl[t].params.output_path
       IN  fs' = SetFile(fs, path, OpenWb(FileAt(fs, path)))
    /\ dl' = [dl EXCEPT ![t] = [@ EXCEPT !.pc = "stream", !.modified = TRUE,
                                         !.written = <<>>]]
    /\ UNCHANGED <<retries, aborted, net, srv, q, qh, cq, bt, opt, du, sem, fold, dnet>>

\* Line 436: the chunk resets the retry counter.
ResetsCounter_Never(try_num, chunk_size) == FALSE

ResetsCounter(try_num, chunk_size) == try_num # 0 /\ chunk_size # 0

\* Lines 431-440: one chunk is written.
DChunk(t) ==
    /\ dl[t].pc = "stream"
    /\ Runnable(t)
    /\ dl[t].stream # <<>>
    /\ LET path == dl[t].params.output_path
           chunk == Head(dl[t].stream)
           chunk_size == Len(chunk)
           reset == ResetsCounter(dl[t].try_num, chunk_size)
       IN  /\ fs' = SetFile(fs, path, WriteChunk(FileAt(fs, path), chunk))
           /\ dl' = [dl EXCEPT ![t] = [@ EXCEPT !.stream = Tail(@), !.modified = TRUE,
                                                !.try_num = IF reset THEN 0 ELSE @,
                                                !.free = IF reset THEN Tally(@) ELSE @,
                                                !.resets = IF reset THEN Tally(@) ELSE @,
                                                !.written = Append(@, chunk)]]
    /\ UNCHANGED <<retries, aborted, net, srv, q, qh, cq, bt, opt, du, sem, fold, dnet>>

\* Line 441: the content is exhausted and the response is released.
DStreamEnd(t) ==
    /\ dl[t].pc = "stream"
    /\ Runnable(t)
    /\ dl[t].stream = <<>>
    /\ dl' = [dl EXCEPT ![t] = [@ EXCEPT !.pc = "break", !.r = NoResponse, !.live = FALSE]]
    /\ UNCHANGED <<retries, aborted, net, srv, q, qh, cq, bt, opt, fs, du, sem, fold, dnet>>

\* Line 431: the iteration over the content of a response fails.
DStreamFail(t) ==
    /\ dl[t].pc = "stream"
    /\ Runnable(t)
    /\ dl[t].live
    /\ \E x \in dnet.stream :
        /\ MayFail(t, dl[t].r, Exc(x))
        /\ dl' = [dl EXCEPT ![t] = [@ EXCEPT !.pc = "except", !.exc = Exc(x)]]
    /\ UNCHANGED <<retries, aborted, net, srv, q, qh, cq, bt, opt, fs, du, sem, fold, dnet>>

\* Lines 442-451: the except clause, up to the sleep; the response is
\* closed and the exception is unbound.
DExcept(t) ==
    /\ dl[t].pc = "except"
    /\ Runnable(t)
    /\ LET counts == DownloadCountsTowardRetry(dl[t].r, dl[t].exc)
           n == IF counts THEN dl[t].try_num + 1 ELSE dl[t].try_num
       IN  dl' = [dl EXCEPT ![t] = [@ EXCEPT !.try_num = n,
                                            !.r = NoResponse, !.exc = NoExc,
                                            !.stream = <<>>, !.live = FALSE,
                                            !.free = IF counts THEN @ ELSE Tally(@),
                                            !.pc = IF DownloadLoopContinues(n) THEN "sleep"
                                                   ELSE "while"]]
    /\ UNCHANGED <<retries, aborted, net, srv, q, qh, cq, bt, opt, fs, du, sem, fold, dnet>>

\* Line 451: the backoff sleep has passed.
DSleep(t) ==
    /\ dl[t].pc = "sleep"
    /\ Runnable(t)
    /\ dl' = [dl EXCEPT ![t] = [@ EXCEPT !.pc = "while"]]
    /\ UNCHANGED <<retries, aborted, net, srv, q, qh, cq, bt, opt, fs, du, sem, fold, dnet>>

\* Lines 453-459: the loop was left.
DVerify(t) ==
    /\ \/ dl[t].pc = "while" /\ ~DownloadLoopContinues(dl[t].try_num)
       \/ dl[t].pc = "break"
    /\ Runnable(t)
    /\ LET path == dl[t].params.output_path
       IN  Returns(t, dl[t], IF IsFile(FileAt(fs, path)) THEN path ELSE EmptyPath)
    /\ UNCHANGED <<retries, aborted, net, srv, q, qh, cq, bt, opt, fs, du, fold, dnet>>

(***************************************************************************)
(* download_url and _download_file.                                        *)
(***************************************************************************)
\* The empty key of ParsedUrl.default().
NoKey == 0 - 1

ParsedUrl(folder_key, file_key, name) ==
    [folder_key |-> folder_key, file_key |-> file_key, name |-> name]

UrlFrame(pc, parsed) ==
    [pc |-> pc, parsed |-> parsed, exc |-> NoExc, result |-> <<>>]

UrlIdle == UrlFrame("idle", ParsedUrl(NoKey, NoKey, <<>>))

(***************************************************************************)
(* _parse_url.  A URL is the sequence of its characters.                   *)
(***************************************************************************)
\* The characters \w matches, among those of the URLs.
WordChars ==
    {"a", "b", "c", "d", "e", "f", "g", "h", "i", "j", "k", "l", "m", "n", "o", "p", "q",
     "r", "s", "t", "u", "v", "w", "x", "y", "z", "0", "1", "2", "3", "4", "5", "6", "7",
     "8", "9", "_"}

\* The least length of the token of re_mediafire_file.
MinKeyLen == 14

\* re_mediafire_file.search(url): a run of MinKeyLen word characters or
\* more between two characters that are none.
ReSearch(url) ==
    \E i \in DOMAIN url :
        /\ url[i] \notin WordChars
        /\ \E j \in (i + MinKeyLen + 1)..Len(url) :
              /\ url[j] \notin WordChars
              /\ \A k \in (i + 1)..(j - 1) : url[k] \in WordChars

\* str.find: the first place of sub in s, 0 when there is none.
Find(sub, s) ==
    IF InStr(sub, s)
    THEN CHOOSE i \in 1..(Len(s) - Len(sub) + 1) :
            /\ SubSeq(s, i, i + Len(sub) - 1) = sub
            /\ \A j \in 1..(i - 1) : SubSeq(s, j, j + Len(sub) - 1) # sub
    ELSE 0

\* s.split(sep, 1)[1]: what follows the first sep of s.
AfterFirst(s, sep) ==
    SubSeq(s, Find(sep, s) + Len(sep), Len(s))

\* s.split('/'): the pieces of s between its slashes.
RECURSIVE SplitSlash(_)
SplitSlash(s) ==
    IF InStr(<<"/">>, s)
    THEN <<SubSeq(s, 1, Find(<<"/">>, s) - 1)>> \o SplitSlash(AfterFirst(s, <<"/">>))
    ELSE <<s>>

\* s.replace(' ', '').
RemoveSpaces(s) == SelectSeq(s, LAMBDA ch : ch # " ")

\* Lines 525 and 532: the first two pieces are unpacked into the key and
\* the name; fewer than two raise ValueError.
Unpack(pieces, isfolder) ==
    IF Len(pieces) < 2 THEN [raised |-> "ValueError"]
    ELSE [raised |-> "none",
          parsed |-> IF isfolder THEN ParsedUrl(pieces[1], <<>>, pieces[2])
                     ELSE ParsedUrl(<<>>, pieces[1], pieces[2])]

\* Lines 515-535.  The keys and the name of the ParsedUrl are sequences of
\* characters here, the empty one for ''.
ParseUrl(url) ==
    LET folder_lookup1 == <<"/", "f", "o", "l", "d", "e", "r", "/">>
        file_lookup1 == <<"/", "f", "i", "l", "e", "/">>
        file_lookup2 == <<"/", "f", "i", "l", "e", "_", "p", "r", "e", "m", "i", "u", "m", "/">>
        has_folder == InStr(folder_lookup1, url)
        has_file1 == InStr(file_lookup1, url)
        has_file2 == InStr(file_lookup2, url)
        stripped == RemoveSpaces(url)
        lookup == IF has_file1 THEN file_lookup1 ELSE file_lookup2
    IN  IF has_folder
        THEN Unpack(SplitSlash(AfterFirst(url, folder_lookup1)), TRUE)
        ELSE IF has_file1 \/ has_file2
        THEN IF ~ReSearch(stripped) THEN [raised |-> "AssertionError"]
             ELSE Unpack(SplitSlash(AfterFirst(stripped, lookup)), FALSE)
        ELSE [raised |-> "ValueError"]

\* The frame of a download_url call that has not parsed its URL yet.
UrlCall(url) ==
    [pc |-> "call", url |-> url, parsed |-> ParsedUrl(<<>>, <<>>, <<>>), exc |-> NoExc,
     result |-> <<>>]

\* Line 327: the URL is parsed.
UParse ==
    /\ du.pc = "call"
    /\ LET p == ParseUrl(du.url)
       IN  du' = IF p.raised = "none"
                 THEN [du EXCEPT !.pc = "parsed", !.parsed = p.parsed]
                 ELSE [du EXCEPT !.pc = "raised", !.exc = Exc(p.raised)]
    /\ UNCHANGED <<retries, aborted, net, srv, q, qh, cq, bt, opt, fs, dl, sem, fold, dnet>>

\* Lines 328-335: the two assertions on what was parsed, and the choice
\* between the folder and the file.
UAssert ==
    /\ du.pc = "parsed"
    /\ du' = IF du.parsed.name = <<>>
                 \/ (du.parsed.folder_key = <<>> /\ du.parsed.file_key = <<>>)
             THEN [du EXCEPT !.pc = "raised", !.exc = Exc("AssertionError")]
             ELSE [du EXCEPT !.pc = IF du.parsed.folder_key # <<>> THEN "is_folder"
                                    ELSE "is_file"]
    /\ UNCHANGED <<retries, aborted, net, srv, q, qh, cq, bt, opt, fs, dl, sem, fold, dnet>>

\* any_filter_matching: a filter is the set of the quickkeys it matches.
AnyFilterMatching_Never(file, filters) == FALSE

AnyFilterMatching(file, filters) ==
    \E flt \in filters : file.quickkey \in flt

\* The `response` object the service sends to file/get_info.
FileInfoResponse(endpoint) ==
    srv.info[endpoint.quick_key]

\* Lines 327-340 for the link of a file: _get_file_info sends its query.
UFile ==
    /\ du.pc = "start"
    /\ du.parsed.folder_key = NoKey
    /\ du.parsed.file_key # NoKey
    /\ q' = QueryStart([api |-> "file/get_info", quick_key |-> du.parsed.file_key])
    /\ qh' = QueryHistStart
    /\ du' = [du EXCEPT !.pc = "file_info"]
    /\ UNCHANGED <<retries, aborted, net, srv, cq, bt, opt, fs, dl, sem, fold, dnet>>

\* Lines 340-360: the answer of _get_file_info, up to the call of
\* _download.  Subscripting the 0 that an aborted query returns raises
\* TypeError (line 232).
UFileInfo ==
    /\ du.pc = "file_info"
    /\ q.pc = "returned"
    /\ q' = QueryIdle
    /\ qh' = QueryHistStart
    /\ IF q.result = "zero"
       THEN /\ du' = [du EXCEPT !.pc = "raised", !.exc = Exc("TypeError")]
            /\ dl' = dl
       ELSE LET action_response == FileInfoResponse(q.endpoint)
                file == action_response.file_info
                output_path == Append(DestBase, file.filename)
            IN  IF action_response.result # "Success"
                THEN /\ du' = [du EXCEPT !.pc = "raised", !.exc = Exc("AssertionError")]
                     /\ dl' = dl
                ELSE IF AnyFilterMatching(file, opt.filters)
                THEN /\ du' = [du EXCEPT !.pc = "returned", !.result = <<output_path>>]
                     /\ dl' = dl
                ELSE /\ du' = [du EXCEPT !.pc = "download"]
                     /\ dl' = (1 :> DownloadFrame("enter",
                                  DownloadParams(1, 1, file.links.normal_download,
                                                 output_path, file.size), FALSE))
    /\ UNCHANGED <<retries, aborted, net, srv, cq, bt, opt, fs, sem, fold, dnet>>

\* Line 340: _query_api raised, and nothing up to download_url catches.
UFileRaised ==
    /\ du.pc = "file_info"
    /\ q.pc = "raised"
    /\ du' = [du EXCEPT !.pc = "raised", !.exc = Exc(q.result)]
    /\ UNCHANGED <<retries, aborted, net, srv, q, qh, cq, bt, opt, fs, dl, sem, fold, dnet>>

\* Lines 360 and 337: _download returned.
UFileDone ==
    /\ du.pc = "download"
    /\ dl[1].pc = "done"
    /\ du' = [du EXCEPT !.pc = "returned", !.result = <<dl[1].ret>>]
    /\ UNCHANGED <<retries, aborted, net, srv, q, qh, cq, bt, opt, fs, dl, sem, fold, dnet>>

\* download_url is called again with the same link.
UAgain ==
    /\ du.pc \in {"returned", "raised"}
    /\ du' = UrlFrame("start", du.parsed)
    /\ dl' = NoDownloads
    /\ q' = QueryIdle
    /\ qh' = QueryHistStart
    /\ UNCHANGED <<retries, aborted, net, srv, cq, bt, opt, fs, sem, fold, dnet>>

(***************************************************************************)
(* _build_file_system, query by query.  The mapping it returns is the one  *)
(* BuildFileSystem computes; its queries are those of build_path_tree, in  *)
(* the order of the traversal.                                             *)
(***************************************************************************)
RECURSIVE BuildQueries(_)
RECURSIVE SubfolderQueries(_)
SubfolderQueries(folders) ==
    IF folders = <<>> THEN <<>>
    ELSE BuildQueries(Head(folders)) \o SubfolderQueries(Tail(folders))

\* Lines 492-504: the listings build_path_tree asks for.
BuildQueries(parent_folder) ==
    LET folder_key == parent_folder.folderkey
        files_query ==
            IF Get(parent_folder, "file_count", 0) > 0
            THEN <<[content_type |-> "files", folder_key |-> folder_key]>>
            ELSE <<>>
    IN  IF Get(parent_folder, "folder_count", 0) > 0
        THEN files_query
             \o <<[content_type |-> "folders", folder_key |-> folder_key]>>
             \o SubfolderQueries(Get(ChunkedResult("folders", folder_key).folder_content,
                                     "folders", <<>>))
        ELSE files_query

\* The frame of _build_file_system once k of its listings are answered.
BuildAfter(root_folder, k) ==
    IF k >= Len(BuildQueries(root_folder))
    THEN [BuildIdle EXCEPT !.pc = "returned", !.k = k,
                           !.sorted_mapping = BuildFileSystem(root_folder)]
    ELSE [BuildIdle EXCEPT !.pc = "run", !.k = k]

\* Lines 495 and 500: the next listing is asked for.
BQuery ==
    /\ bt.pc = "run"
    /\ LET query == BuildQueries(srv.root)[bt.k + 1]
       IN  cq' = ChunkStart(query.content_type, query.folder_key)
    /\ bt' = [bt EXCEPT !.pc = "await"]
    /\ UNCHANGED <<retries, aborted, net, srv, q, qh, opt, fs, dl, du, sem, fold, dnet>>

\* Lines 495-504: the listing is answered.
BAnswer ==
    /\ bt.pc = "await"
    /\ cq.pc = "returned"
    /\ cq' = ChunkIdle
    /\ bt' = BuildAfter(srv.root, bt.k + 1)
    /\ UNCHANGED <<retries, aborted, net, srv, q, qh, opt, fs, dl, du, sem, fold, dnet>>

\* Lines 495 and 500: the query of the listing raised; nothing here
\* catches it.
BRaise ==
    /\ bt.pc = "await"
    /\ cq.pc = "raised"
    /\ cq' = ChunkIdle
    /\ bt' = [bt EXCEPT !.pc = "raised", !.exc = cq.exc]
    /\ UNCHANGED <<retries, aborted, net, srv, q, qh, opt, fs, dl, du, sem, fold, dnet>>

(***************************************************************************)
(* _download_folder.                                                       *)
(***************************************************************************)
\* The frame of _download_folder: its position, the processing subset and
\* the number of tasks created; and, while _filter_folder_files runs, its
\* argument (files), its place in it (file_idx), the answers asked for the
\* file at hand (tries) and in all (prompts), the calls of
\* any_filter_matching (consulted) and whether the loop was left by the
\* break of line 467 (broke); and the two numbers of the summary of line
\* 318, "Downloaded <downloaded> / <attempted> files".
FolderIdle ==
    [pc |-> "idle", proc_queue |-> {}, ntasks |-> 0, files |-> <<>>, file_idx |-> 0,
     tries |-> 0, prompts |-> 0, consulted |-> 0, broke |-> FALSE,
     downloaded |-> 0, attempted |-> 0]

\* Lines 194-198: the endpoint of _query_folder_info without get_content.
InfoEndpoint(content_type, folder_key, chunk_num) ==
    [api |-> "folder/get_info", content_type |-> content_type,
     folder_key |-> folder_key, chunk |-> chunk_num]

\* Lines 334-335 and 281: download_url on the link of a folder;
\* _get_folder_info sends its query.
UFolder ==
    /\ du.pc = "start"
    /\ du.parsed.folder_key # NoKey
    /\ q' = QueryStart(InfoEndpoint("folder", du.parsed.folder_key, 1))
    /\ qh' = QueryHistStart
    /\ du' = [du EXCEPT !.pc = "folder"]
    /\ fold' = [FolderIdle EXCEPT !.pc = "folder_info"]
    /\ UNCHANGED <<retries, aborted, net, srv, cq, bt, opt, fs, dl, sem, dnet>>

\* Lines 281-283: the folder info is there and _build_file_system begins.
\* Subscripting the 0 that an aborted query returns raises TypeError (line
\* 227).
FInfo ==
    /\ fold.pc = "folder_info"
    /\ q.pc = "returned"
    /\ q' = QueryIdle
    /\ qh' = QueryHistStart
    /\ IF q.result = "zero"
       THEN /\ fold' = [fold EXCEPT !.pc = "raised"]
            /\ du' = [du EXCEPT !.pc = "raised", !.exc = Exc("TypeError")]
            /\ bt' = bt
       ELSE /\ fold' = [fold EXCEPT !.pc = "build"]
            /\ du' = du
            /\ bt' = BuildAfter(srv.root, 0)
    /\ UNCHANGED <<retries, aborted, net, srv, cq, opt, fs, dl, sem, dnet>>

\* Line 281: _query_api raised, and nothing up to download_url catches.
FInfoRaised ==
    /\ fold.pc = "folder_info"
    /\ q.pc = "raised"
    /\ fold' = [fold EXCEPT !.pc = "raised"]
    /\ du' = [du EXCEPT !.pc = "raised", !.exc = Exc(q.result)]
    /\ UNCHANGED <<retries, aborted, net, srv, q, qh, cq, bt, opt, fs, dl, sem, dnet>>

\* Line 283: _build_file_system raised, and nothing up to download_url
\* catches.
FBuildRaised ==
    /\ fold.pc = "build"
    /\ bt.pc = "raised"
    /\ fold' = [fold EXCEPT !.pc = "raised"]
    /\ du' = [du EXCEPT !.pc = "raised", !.exc = bt.exc]
    /\ UNCHANGED <<retries, aborted, net, srv, q, qh, cq, bt, opt, fs, dl, sem, dnet>>

\* The sorted of Python by the `created` of the nodes: stable.
RECURSIVE InsertByCreated(_, _)
InsertByCreated(sorted, entry) ==
    IF sorted = <<>> THEN <<entry>>
    ELSE IF entry.v.created < Head(sorted).v.created THEN <<entry>> \o sorted
    ELSE <<Head(sorted)>> \o InsertByCreated(Tail(sorted), entry)

RECURSIVE SortByCreatedFrom(_, _)
SortByCreatedFrom(acc, entries) ==
    IF entries = <<>> THEN acc
    ELSE SortByCreatedFrom(InsertByCreated(acc, Head(entries)), Tail(entries))

\* Line 284: the file nodes of the mapping, by creation time.
FilesByCreated(ftree) ==
    SelectSeq(SortByCreatedFrom(<<>>, ftree), LAMBDA entry : IsFileNode(entry.v))

\* Lines 287-288: the place of the file in the order of line 284.
NumInQueue(files, path) ==
    CHOOSE i \in DOMAIN files : files[i].k = path

\* Lines 284-293: the mapping is there; its files are numbered by creation
\* time and _filter_folder_files is called with them.
FScan ==
    /\ fold.pc = "build"
    /\ bt.pc = "returned"
    /\ fold' = [fold EXCEPT !.pc = "filter", !.files = FilesByCreated(bt.sorted_mapping)]
    /\ UNCHANGED <<retries, aborted, net, srv, q, qh, cq, bt, opt, fs, dl, du, sem, dnet>>

\* Line 469: the link of a folder names one of its files.
Pinned_Never(parsed) == FALSE

Pinned(parsed) == parsed.folder_key # NoKey /\ parsed.file_key # NoKey

\* Lines 465-488: one turn of the loop of _filter_folder_files, up to the
\* first input() when the user is to be asked; the end of the loop, by
\* exhaustion or by the break of line 467.
FilterNext ==
    /\ fold.pc = "filter"
    /\ IF fold.file_idx = Len(fold.files)
       THEN fold' = [fold EXCEPT !.pc = "filtered"]
       ELSE IF aborted
       THEN fold' = [fold EXCEPT !.pc = "filtered", !.broke = TRUE]
       ELSE LET entry == fold.files[fold.file_idx + 1]
                file == entry.v
                taken == [fold EXCEPT !.file_idx = @ + 1, !.proc_queue = @ \cup {entry.k}]
                left == [fold EXCEPT !.file_idx = @ + 1]
            IN  IF Pinned(du.parsed)
                THEN fold' = IF file.quickkey = du.parsed.file_key THEN taken ELSE left
                ELSE IF opt.filters # {}
                THEN fold' = [IF AnyFilterMatching(file, opt.filters) THEN left ELSE taken
                                EXCEPT !.consulted = @ + 1]
                ELSE IF opt.noconfirm
                THEN fold' = taken
                ELSE fold' = [fold EXCEPT !.pc = "filter_prompt", !.tries = 0]
    /\ UNCHANGED <<retries, aborted, net, srv, q, qh, cq, bt, opt, fs, dl, du, sem, dnet>>

\* Lines 482-488: one answer of the user about the file at hand.
FilterPrompt ==
    /\ fold.pc = "filter_prompt"
    /\ \E ans \in Answers :
        LET entry == fold.files[fold.file_idx + 1]
            asked == [fold EXCEPT !.prompts = @ + 1, !.tries = @ + 1]
        IN  IF InStr(ans, <<"n", "N", "y", "Y", "1", "0">>)
            THEN fold' = [asked EXCEPT !.pc = "filter", !.file_idx = @ + 1,
                                       !.proc_queue = IF InStr(ans, <<"y", "Y", "1">>)
                                                      THEN @ \cup {entry.k} ELSE @]
            ELSE /\ fold.tries + 1 < MaxPrompts
                 /\ fold' = asked
    /\ UNCHANGED <<retries, aborted, net, srv, q, qh, cq, bt, opt, fs, dl, du, sem, dnet>>

\* Lines 306-315: the nodes of the mapping, in its order, for which a task
\* is created.
Enqueued_EveryFile(ftree, proc_queue) ==
    SelectSeq(ftree, LAMBDA entry : IsFileNode(entry.v))

Enqueued(ftree, proc_queue) ==
    SelectSeq(ftree, LAMBDA entry : entry.k \in proc_queue)

\* Lines 297-301: the parameters of the task created at place idx (from 0)
\* for a file.
TaskParams(idx, files, entry) ==
    DownloadParams(idx, NumInQueue(files, entry.k), entry.v.links.normal_download,
                   entry.k, entry.v.size)

\* Lines 294-317: the processing subset is there, and a task is created for
\* each node of the mapping that is in it.  After an abort the call returns
\* the empty tuple.
FSchedule ==
    /\ fold.pc = "filtered"
    /\ LET ftree == bt.sorted_mapping
           tasks == Enqueued(ftree, fold.proc_queue)
       IN  IF aborted
           THEN /\ fold' = [FolderIdle EXCEPT !.pc = "returned", !.proc_queue = fold.proc_queue]
                /\ du' = [du EXCEPT !.pc = "returned", !.result = <<>>]
                /\ UNCHANGED <<sem, dl>>
           ELSE /\ fold' = [FolderIdle EXCEPT !.pc = "gather", !.proc_queue = fold.proc_queue,
                                              !.ntasks = Len(tasks)]
                /\ du' = du
                /\ sem' = Semaphore(opt.max_jobs)
                /\ dl' = [t \in DOMAIN tasks |->
                            DownloadFrame("created", TaskParams(t - 1, fold.files, tasks[t]),
                                          TRUE)]
    /\ bt' = BuildIdle
    /\ UNCHANGED <<retries, aborted, net, srv, q, qh, cq, opt, fs, dnet>>

\* Line 302: the task begins and comes to the semaphore.  Tasks begin in
\* the order of their creation; a task that finds the semaphore locked
\* waits behind those that wait already.
TStart(t) ==
    /\ dl[t].pc = "created"
    /\ Runnable(t)
    /\ \A u \in DOMAIN dl : u < t => dl[u].pc # "created"
    /\ IF Locked(sem)
       THEN /\ sem' = [sem EXCEPT !.waiters = Append(@, t)]
            /\ dl' = [dl EXCEPT ![t].pc = "gate"]
       ELSE /\ sem' = [sem EXCEPT !.value = @ - 1]
            /\ dl' = [dl EXCEPT ![t].pc = "enter"]
    /\ UNCHANGED <<retries, aborted, net, srv, q, qh, cq, bt, opt, fs, du, fold, dnet>>

\* isinstance(c, pathlib.Path): a path is a sequence of names, and the path
\* of no name is one.
IsPath_NotEmpty(c) == c \in Seq(Seq(Nat)) /\ c # <<>>

IsPath(c) == c \in Seq(Seq(Nat))

\* Lines 317-319: every task is done, gather returns their results and the
\* summary is logged.
FGather ==
    /\ fold.pc = "gather"
    /\ \A t \in DOMAIN dl : dl[t].pc = "done"
    /\ LET results == [t \in DOMAIN dl |-> dl[t].ret]
       IN  /\ fold' = [fold EXCEPT !.pc = "returned",
                                    !.downloaded = Len(SelectSeq(results, IsPath)),
                                    !.attempted = fold.ntasks]
           /\ du' = [du EXCEPT !.pc = "returned", !.result = results]
    /\ UNCHANGED <<retries, aborted, net, srv, q, qh, cq, bt, opt, fs, dl, sem, dnet>>

(***************************************************************************)
(* One _query_api call, for every retry budget.                            *)
(***************************************************************************)
InitQuery ==
    /\ retries \in 0..MaxRetries
    /\ aborted = FALSE
    /\ net = QueryOutcomes
    /\ srv = NoServer
    /\ q = QueryStart([api |-> "file/get_info", quick_key |-> 1])
    /\ qh = QueryHistStart
    /\ cq = ChunkIdle
    /\ bt = BuildIdle
    /\ opt = NoOptions
    /\ fs = NoFiles
    /\ dl = NoDownloads
    /\ du = UrlIdle
    /\ sem = NoSemaphore
    /\ fold = FolderIdle
    /\ dnet = NoDownloadNet

NextQuery ==
    \/ QAttempt
    \/ QExcept
    \/ QSleep
    \/ QRaise
    \/ Abort

SpecQuery == InitQuery /\ [][NextQuery]_vars

(***************************************************************************)
(* _download calls on one target, for every mode, every answer to the      *)
(* prompt and every file that may be there before the first call.          *)
(***************************************************************************)
\* The target of the calls: the file "a" of the destination directory.
TargetPath == Append(DestBase, <<97>>)

\* The sizes the service may report for the file, and the files that may
\* exist at the target before the first call: of each of these sizes.
Sizes == {0, 1, 2}

ExistingFiles ==
    {[exists |-> TRUE, content |-> [i \in 1..n |-> 1]] : n \in Sizes}

\* Answers of the download server whose stream yields an empty chunk, the
\* case that line 436 provides for.
EmptyChunkAnswers ==
    {[raise |-> "none", status |-> 200, body |-> b] : b \in {<< <<>> >>, << <<>>, <<1>> >>}}

InitDownload ==
    /\ retries \in 0..MaxRetries
    /\ aborted = FALSE
    /\ net = {}
    /\ srv = NoServer
    /\ q = QueryIdle
    /\ qh = QueryHistStart
    /\ cq = ChunkIdle
    /\ bt = BuildIdle
    /\ \E m \in DownloadMode, nc \in BOOLEAN :
          opt = [NoOptions EXCEPT !.download_mode = m, !.noconfirm = nc]
    /\ \E f \in {NoFile} \cup ExistingFiles :
          fs = [files |-> (TargetPath :> f), dirs |-> {DestBase}]
    /\ \E size \in Sizes :
          dl = (1 :> DownloadFrame("enter", DownloadParams(1, 1, 1, TargetPath, size), FALSE))
    /\ du = UrlIdle
    /\ sem = NoSemaphore
    /\ fold = FolderIdle
    /\ dnet = [AnyDownloadNet({1}) EXCEPT !.second = @ \cup EmptyChunkAnswers]

\* _download is called again with the same parameters.
DAgain ==
    /\ dl[1].pc = "done"
    /\ dl' = (1 :> DownloadFrame("enter", dl[1].params, FALSE))
    /\ UNCHANGED <<retries, aborted, net, srv, q, qh, cq, bt, opt, fs, du, sem, fold, dnet>>

NextDownload ==
    \/ DEnter(1)
    \/ DPrompt(1)
    \/ DRequest(1)
    \/ DResolve(1)
    \/ DOpen(1)
    \/ DChunk(1)
    \/ DStreamEnd(1)
    \/ DStreamFail(1)
    \/ DExcept(1)
    \/ DSleep(1)
    \/ DVerify(1)
    \/ DAgain
    \/ Abort

SpecDownload == InitDownload /\ [][NextDownload]_vars

(***************************************************************************)
(* download_url on the link of a file, again and again: the query of the   *)
(* file info and the download, for every answer of the network.            *)
(***************************************************************************)
\* The file the link names, as file/get_info reports it.
LinkedFile ==
    [quickkey |-> 1, filename |-> <<97>>, created |-> 1, size |-> 1,
     links |-> [normal_download |-> 1]]

InitFile ==
    /\ retries \in 0..MaxRetries
    /\ aborted = FALSE
    /\ net = QueryOutcomes
    /\ \E result \in {"Success", "Error"} :
          srv = [NoServer EXCEPT !.info = (1 :> [action |-> "file/get_info", result |-> result,
                                                 file_info |-> LinkedFile])]
    /\ q = QueryIdle
    /\ qh = QueryHistStart
    /\ cq = ChunkIdle
    /\ bt = BuildIdle
    \* rate limiting is disabled in unattended runs without filters only
    /\ \E nc \in BOOLEAN, flt \in {{}, {{1}}}, nodelay \in BOOLEAN :
          /\ nodelay => (nc /\ flt = {})
          /\ opt = [NoOptions EXCEPT !.noconfirm = nc, !.filters = flt, !.nodelay = nodelay]
    /\ fs = [files |-> (TargetPath :> NoFile), dirs |-> {DestBase}]
    /\ dl = NoDownloads
    /\ du = UrlFrame("start", ParsedUrl(NoKey, 1, <<97>>))
    /\ sem = NoSemaphore
    /\ fold = FolderIdle
    /\ dnet = AnyDownloadNet({1})

NextFile ==
    \/ UFile
    \/ UFileInfo
    \/ UFileRaised
    \/ UFileDone
    \/ UAgain
    \/ QAttempt
    \/ QExcept
    \/ QSleep
    \/ QRaise
    \/ \E t \in DOMAIN dl :
        \/ DEnter(t)
        \/ DPrompt(t)
        \/ DRequest(t)
        \/ DResolve(t)
        \/ DOpen(t)
        \/ DChunk(t)
        \/ DStreamEnd(t)
        \/ DStreamFail(t)
        \/ DExcept(t)
        \/ DSleep(t)
        \/ DVerify(t)
    \/ Abort

SpecFile == InitFile /\ [][NextFile]_vars

(***************************************************************************)
(* Properties of the two retry loops.                                      *)
(***************************************************************************)
\* C3: in _query_api and in _download, the except clause that handles a
\* failed attempt leaves the retry counter as it found it if and only if
\* the status of the response is 403 or the exception is a
\* ClientPayloadError, a ClientResponseError or a ClientConnectorError; in
\* every other case, when the loop is not left by a break, it adds exactly
\* one.  The counter is compared before and after the except clause.
C3_CounterUnchangedIffForbiddenOrTransport ==
    [][ /\ (q.pc = "except" /\ q'.pc \notin {"except", "break"}) =>
              q'.try_num =
                 IF q.r = 403 \/ q.exc.cls \in {"ClientPayloadError", "ClientResponseError",
                                                "ClientConnectorError"}
                 THEN q.try_num ELSE q.try_num + 1
        /\ \A t \in DOMAIN dl \cap DOMAIN dl' :
              (dl[t].pc = "except" /\ dl'[t].pc # "except") =>
                  dl'[t].try_num =
                     IF dl[t].r = 403
                        \/ dl[t].exc.cls \in {"ClientPayloadError", "ClientResponseError",
                                              "ClientConnectorError"}
                     THEN dl[t].try_num ELSE dl[t].try_num + 1
      ]_vars

\* A _download call sleeps after its except clause handled a failure that
\* consumed a slot and one that did not, no chunk having been written.
C3_Witness ==
    \E t \in DOMAIN dl :
        /\ dl[t].pc = "sleep"
        /\ dl[t].try_num = 1
        /\ dl[t].free = 1
        /\ ~dl[t].modified

(***************************************************************************)
(* Properties of _download on a target that exists.                        *)
(***************************************************************************)
\* The call of task t has begun in unattended mode and found at its target
\* a file whose size is the expected size.
FoundComplete(t) ==
    /\ dl[t].pc # "enter"
    /\ opt.noconfirm
    /\ IsFile(dl[t].entry)
    /\ StSize(dl[t].entry) = dl[t].params.expected_size

\* The call of task t has returned its target path without a request and
\* without a prompt, and the content of the file is what it was.
ReturnedUntouched(t) ==
    /\ dl[t].pc = "done"
    /\ dl[t].ret = dl[t].params.output_path
    /\ dl[t].reqs = 0
    /\ dl[t].prompts = 0
    /\ FileAt(fs, dl[t].params.output_path) = dl[t].entry

\* C10 as stated: in unattended mode a _download call that finds at its
\* target a file of the expected size issues no request, asks no prompt,
\* returns the target path and performs no operation on the file (no touch,
\* no open for writing, no write), in every mode and at every repetition.
C10_CompleteFileLeftAlone ==
    \A t \in DOMAIN dl :
        FoundComplete(t) => (ReturnedUntouched(t) /\ ~dl[t].modified)

\* C10 amended: such a call issues no request, asks no prompt, returns the
\* target path and leaves the content of the file as it was, in every mode
\* and at every repetition; it performs no operation on the file except in
\* touch mode when the file is empty (and the expected size is 0), where
\* the file is touched again.
C10_CompleteFileKeepsContent ==
    \A t \in DOMAIN dl :
        FoundComplete(t) =>
            /\ ReturnedUntouched(t)
            /\ dl[t].modified => (opt.download_mode = "touch" /\ StSize(dl[t].entry) = 0)

\* A call in full mode found a complete file that is not empty and
\* returned.
C10_Witness ==
    \E t \in DOMAIN dl :
        /\ FoundComplete(t)
        /\ dl[t].pc = "done"
        /\ opt.download_mode = "full"
        /\ StSize(dl[t].entry) > 0

\* C25: at the prompt of the existence check the decision is a function of
\* the typed answer: the download proceeds only if the answer is y, Y or 1;
\* the file is skipped (the target path is returned, the file is left
\* untouched, no request is made) if the answer is n, N, 0 or empty; any
\* other answer does neither and the prompt is shown again.
C25_AnswerDecides ==
    [][\A t \in DOMAIN dl \cap DOMAIN dl' :
        (dl[t].pc = "prompt" /\ dl'[t].prompts = dl[t].prompts + 1) =>
            LET ans == dl'[t].ans
                proceeds == dl'[t].pc = "while" \/ (dl'[t].pc = "done" /\ dl'[t].modified)
                skips == /\ dl'[t].pc = "done"
                         /\ dl'[t].ret = dl[t].params.output_path
                         /\ ~dl'[t].modified
                         /\ dl'[t].reqs = 0
                         /\ fs' = fs
            IN  /\ proceeds <=> ans \in {<<"y">>, <<"Y">>, <<"1">>}
                /\ skips <=> ans \in {<<"n">>, <<"N">>, <<"0">>, <<>>}
                /\ (~proceeds /\ ~skips) <=> dl'[t].pc = "prompt"
      ]_vars

(***************************************************************************)
(* Properties of _download in touch mode, in skip mode and after an abort. *)
(***************************************************************************)
\* C11 as stated: in touch mode a _download call never issues an HTTP
\* request, and every call that returns leaves a file (possibly of zero
\* length) present at the target path.
C11_TouchLeavesFile ==
    \A t \in DOMAIN dl :
        opt.download_mode = "touch" =>
            /\ dl[t].reqs = 0
            /\ dl[t].pc = "done" => IsFile(FileAt(fs, dl[t].params.output_path))

\* C11 amended: in touch mode a _download call never issues an HTTP
\* request, and every call that returns leaves a file (possibly of zero
\* length) present at the target path, unless the abort flag was set when
\* the call began: then it returns and creates nothing.
C11_TouchLeavesFileUnlessAborted ==
    /\ [](\A t \in DOMAIN dl : opt.download_mode = "touch" => dl[t].reqs = 0)
    /\ [][\A t \in DOMAIN dl \cap DOMAIN dl' :
            (/\ opt.download_mode = "touch"
             /\ dl[t].pc # "done"
             /\ dl'[t].pc = "done") =>
                IF dl[t].pc = "enter" /\ aborted
                THEN fs' = fs
                ELSE IsFile(FileAt(fs', dl[t].params.output_path))
         ]_vars

\* A call in touch mode found no file at its target and returned with an
\* empty file there.
C11_Witness ==
    \E t \in DOMAIN dl :
        /\ opt.download_mode = "touch"
        /\ dl[t].pc = "done"
        /\ ~IsFile(dl[t].entry)
        /\ FileAt(fs, dl[t].params.output_path) = [exists |-> TRUE, content |-> <<>>]

\* C19: a _download call made in skip mode, or made in any mode after the
\* abort flag was set, returns params.output_path in its first step: it
\* issues no request, creates or modifies no file or directory, asks no
\* prompt and leaves the retry counter, the retry budget and the state of
\* the queries as they were.
C19_SkipOrAbortReturnsAtOnce ==
    [][\A t \in DOMAIN dl \cap DOMAIN dl' :
        (/\ dl[t].pc = "enter"
         /\ opt.download_mode = "skip" \/ aborted
         /\ dl'[t] # dl[t]) =>
            /\ dl'[t].pc = "done"
            /\ dl'[t].ret = dl[t].params.output_path
            /\ fs' = fs
            /\ dl'[t].reqs = 0 /\ dl'[t].prompts = 0 /\ ~dl'[t].modified
            /\ dl'[t].try_num = dl[t].try_num
            /\ retries' = retries /\ q' = q /\ qh' = qh
      ]_vars

\* A call in full mode began after the abort flag was set and returned the
\* path of a target that does not exist.
C19_Witness ==
    \E t \in DOMAIN dl :
        /\ aborted
        /\ opt.download_mode = "full"
        /\ dl[t].pc = "done"
        /\ dl[t].ret = dl[t].params.output_path
        /\ ~IsFile(dl[t].entry)
        /\ ~IsFile(FileAt(fs, dl[t].params.output_path))
        /\ dl[t].reqs = 0

(***************************************************************************)
(* Properties of the retry loop of _download.                              *)
(***************************************************************************)
\* C21: in _download, whenever an attempt that started with a non-zero
\* retry counter receives a non-empty chunk, the counter is 0 before the
\* next chunk is processed, and an empty chunk leaves the counter as it
\* is; within a call nothing else lowers the counter, which never exceeds
\* retries + 1: the cap bounds the failures counted since the last byte
\* was received.
C21_ChunkResetsCounter ==
    /\ [][\A t \in DOMAIN dl \cap DOMAIN dl' :
            /\ (dl[t].pc = "stream" /\ dl'[t].written # dl[t].written) =>
                  dl'[t].try_num =
                     IF dl[t].try_num # 0 /\ Len(Head(dl[t].stream)) # 0
                     THEN 0 ELSE dl[t].try_num
            /\ (dl[t].pc # "done" /\ dl'[t].try_num < dl[t].try_num) =>
                  /\ dl[t].pc = "stream"
                  /\ dl'[t].written # dl[t].written
                  /\ Len(Head(dl[t].stream)) # 0
       ]_vars
    /\ [](\A t \in DOMAIN dl : dl[t].try_num <= retries + 1)

\* An attempt that began after one counted failure received an empty
\* chunk, which left the counter at 1, and then a chunk of one byte, which
\* reset it: the reset is the only event of the call that spared the
\* budget.
C21_Witness ==
    \E t \in DOMAIN dl :
        /\ dl[t].pc = "stream"
        /\ dl[t].written = << <<>>, <<1>> >>
        /\ dl[t].try_num = 0
        /\ dl[t].resets = 1
        /\ dl[t].free = 1

\* C22: once the abort flag is set, a _download call that is inside its
\* retry loop starts no new attempt: when the attempt in flight has ended
\* the call issues no further request and does not sleep, it leaves the
\* loop and returns.
C22_AbortEndsRetryLoop ==
    [][\A t \in DOMAIN dl \cap DOMAIN dl' :
        (aborted /\ dl'[t] # dl[t]) =>
            /\ dl[t].pc = "while" => dl'[t].pc = "done"
            /\ dl[t].pc = "except" => dl'[t].pc # "sleep"
      ]_vars

\* The bytes of a sequence of chunks.
RECURSIVE Concat(_)
Concat(chunks) ==
    IF chunks = <<>> THEN <<>> ELSE Head(chunks) \o Concat(Tail(chunks))

\* C26: when the response to the request of the file URL carries
\* Content-Disposition and the attempt raises no error, the target holds the
\* body of that response after the attempt (its size is the length of the
\* body), and no second request was made.
C26_DirectStreamSavesBody ==
    \A t \in DOMAIN dl :
        (dl[t].pc = "break" /\ dl[t].reqs = 1) =>
            LET f == FileAt(fs, dl[t].params.output_path)
            IN  /\ IsFile(f)
                /\ f.content = Concat(dl[t].sent)

\* C27: every attempt of _download that comes to stream opens the target
\* truncated and writes from its beginning: at every moment after the call
\* first opened it, the target holds exactly the chunks written since it
\* was last opened, neither bytes of an earlier attempt or of the file that
\* was there before, nor a continuation of them.
C27_FileHoldsLastAttempt ==
    \A t \in DOMAIN dl :
        (opt.download_mode = "full" /\ dl[t].modified) =>
            LET f == FileAt(fs, dl[t].params.output_path)
            IN  /\ IsFile(f)
                /\ f.content = Concat(dl[t].written)

\* Two attempts of a call each wrote a byte after a counted failure (so
\* that each reset the counter); the first of them failed, the second one
\* came to its end, and the target holds its one chunk only.
C27_Witness ==
    \E t \in DOMAIN dl :
        /\ dl[t].pc = "break"
        /\ dl[t].resets = 2
        /\ dl[t].written = << <<1>> >>
        /\ FileAt(fs, dl[t].params.output_path) = [exists |-> TRUE, content |-> <<1>>]

(***************************************************************************)
(* Properties of _query_api.                                               *)
(***************************************************************************)
\* The success envelope: a JSON object with a `response` field (and no
\* `error` field, which line 166 tests first).
IsSuccessBody(b) ==
    b.kind = "value" /\ b.isdict /\ "response" \in b.keys /\ "error" \notin b.keys

\* C2: when every failed attempt so far failed with the generic EUNK
\* RequestError on a response whose status is not 403, there being N of them,
\* N <= retries, and attempt N+1 reads a JSON object with a `response` field,
\* then the call returns that object, N+1 requests were issued and the retry
\* counter is N; and no run of N <= retries such failures makes the call
\* raise.
C2_RetryAccounting ==
    /\ (qh.fails = qh.eunk /\ qh.reqs = qh.eunk + 1 /\ IsSuccessBody(q.body))
          => /\ q.pc = "returned"
             /\ q.result = "jresp"
             /\ q.try_num = qh.eunk
             /\ qh.eunk <= retries
    /\ (qh.fails = qh.eunk /\ q.pc \in {"returned", "raised", "break"})
          => \/ q.pc = "returned" /\ q.result = "jresp" /\ qh.reqs = qh.eunk + 1
             \/ q.pc = "returned" /\ q.result = "zero" /\ aborted
             \/ q.pc = "raised" /\ qh.eunk = retries + 1

C2_Witness ==
    /\ retries >= 1
    /\ qh.eunk = retries
    /\ qh.fails = qh.eunk
    /\ q.pc = "returned"
    /\ q.result = "jresp"

\* The body read is a JSON object with an `error` field.
IsErrorBody(b) ==
    b.kind = "value" /\ b.isdict /\ "error" \in b.keys

\* C23 as stated: a _query_api attempt whose JSON body is an object with an
\* `error` field is a retryable failure: its except clause does not leave
\* the loop, it adds exactly one to the retry counter and, while slots
\* remain and abort is not signalled, it goes to the backoff sleep, after
\* which the loop is entered again.
C23_ErrorFieldUsesOneSlot ==
    [][(q.pc = "except" /\ IsErrorBody(q.body) /\ q' # q) =>
          /\ q'.pc \notin {"break", "raised"}
          /\ q'.try_num = q.try_num + 1
          /\ (~aborted /\ q'.try_num <= retries) => q'.pc = "sleep"
      ]_vars

\* C23 amended: such an attempt is a retryable failure: its except clause
\* does not leave the loop, and while slots remain and abort is not
\* signalled it goes to the backoff sleep, after which the loop is entered
\* again; it adds exactly one to the retry counter unless the status of
\* the response is 403, when it leaves the counter as it is.
C23_ErrorFieldUsesOneSlotUnlessForbidden ==
    [][/\ (q.pc = "except" /\ IsErrorBody(q.body) /\ q' # q) =>
            /\ q'.pc \notin {"break", "raised"}
            /\ q'.try_num = IF q.r = 403 THEN q.try_num ELSE q.try_num + 1
            /\ (~aborted /\ q'.try_num <= retries) => q'.pc = "sleep"
       /\ (q.pc = "sleep" /\ IsErrorBody(q.body) /\ q' # q) =>
            (q'.pc = "while" /\ q'.try_num = q.try_num)
      ]_vars

\* A call sleeps after one attempt, whose answer of status 200 held an
\* `error` field and used a slot.
C23_Witness ==
    /\ q.pc = "sleep"
    /\ IsErrorBody(q.body)
    /\ q.r = 200
    /\ q.try_num = 1
    /\ qh.reqs = 1

\* C4 as stated: a call never issues more than retries + 1 GET requests.
C4_AtMostRetriesPlusOneRequests ==
    qh.reqs <= retries + 1

\* C4 as amended: a call issues at most retries + 1 GET requests besides
\* those that failed with a 403 response or a transport-class error; each of
\* the latter is retried without using the budget.
C4_AtMostRetriesPlusOneCountedRequests ==
    qh.reqs - qh.free <= retries + 1

C4_Witness ==
    /\ q.pc = "raised"
    /\ qh.free >= 1
    /\ qh.reqs = retries + 1 + qh.free

(***************************************************************************)
(* One _wrap_chunked_api_folder_query call, for every listing of up to     *)
(* MaxChunks chunks with any more_chunks flags.                            *)
(***************************************************************************)
\* The i-th entry of a listing of files or of folders.
Entry(content_type, i) ==
    IF content_type = "files"
    THEN [quickkey |-> i, filename |-> <<i>>, created |-> i, size |-> 1]
    ELSE [folderkey |-> i, name |-> <<i>>, created |-> i, file_count |-> 0, folder_count |-> 0]

Flags == {"yes", "no", "absent"}

Listings(content_type) ==
    UNION {{[i \in 1..n |-> [entries |-> <<Entry(content_type, i)>>, more |-> fl[i]]] :
                fl \in [1..n -> Flags]} : n \in 1..MaxChunks}

\* The answers of the network in this specification: success, the generic
\* EUNK failure and a transport-class failure.
ChunkNet ==
    {o \in QueryOutcomes :
        \/ o.r = 200 /\ o.body \in {[kind |-> "value", isdict |-> TRUE, keys |-> {"response"}],
                                     [kind |-> "value", isdict |-> TRUE, keys |-> {}]}
        \/ o.r = NoResponse /\ o.exc.cls = "ClientConnectorError"}

InitChunk ==
    /\ retries \in 0..MaxRetries
    /\ aborted = FALSE
    /\ net = ChunkNet
    /\ \E ct \in {"files", "folders"} :
        /\ \E l \in Listings(ct) : srv = [NoServer EXCEPT ![ct] = (1 :> l)]
        /\ cq = ChunkStart(ct, 1)
    /\ q = QueryIdle
    /\ qh = QueryHistStart
    /\ bt = BuildIdle
    /\ opt = NoOptions
    /\ fs = NoFiles
    /\ dl = NoDownloads
    /\ du = UrlIdle
    /\ sem = NoSemaphore
    /\ fold = FolderIdle
    /\ dnet = NoDownloadNet

NextChunk ==
    \/ CQuery
    \/ CMerge
    \/ CRaise
    \/ QAttempt
    \/ QExcept
    \/ QSleep
    \/ QRaise
    \/ Abort

SpecChunk == InitChunk /\ [][NextChunk]_vars

(***************************************************************************)
(* Properties of _wrap_chunked_api_folder_query.                           *)
(***************************************************************************)
\* The more_chunks flag the service reports for chunk i of the listing asked for.
Reported(i) ==
    LET lst == Get(srv[cq.content_type], cq.folder_key, <<>>)
    IN  IF i \in 1..Len(lst) THEN lst[i].more ELSE "no"

\* C6: the chunks are asked for as 1, 2, 3, ... without gap or repeat, each
\* request is followed by its answer before the next request is made, chunk
\* k+1 is asked for if and only if chunk k reported more_chunks = yes, and a
\* call that returns has made exactly n requests, n being the first chunk
\* that did not report yes.  (A request here is one _query_folder_info call;
\* the GETs _query_api repeats for it after a failure are not counted.)
C6_ChunksInOrder ==
    LET log == cq.log
        n == Len(log)
    IN  /\ \A i \in 1..n :
            /\ (i % 2 = 1) => (log[i].ev = "req" /\ log[i].chunk = (i + 1) \div 2)
            /\ (i % 2 = 0) => (log[i].ev = "resp" /\ log[i].chunk = i \div 2)
            /\ (i % 2 = 1 /\ i > 1) => log[i - 1].reported = "yes"
        /\ (n > 0 /\ log[n].ev = "resp")
              => /\ (log[n].reported = "yes" <=> cq.pc = "while")
                 /\ (log[n].reported # "yes" <=> cq.pc = "returned")
                 /\ cq.chunk_num = log[n].chunk + 1
        /\ cq.pc = "returned"
              => /\ n % 2 = 0
                 /\ \A i \in 1..(n \div 2 - 1) : Reported(i) = "yes"
                 /\ Reported(n \div 2) # "yes"

C6_Witness ==
    /\ cq.pc = "returned"
    /\ Len(cq.log) = 6
    /\ Reported(3) = "no"

\* C7: the result of a call that returns holds, in its folder_content,
\* every entry that any of the chunks delivered.
C7_MergedResultHoldsUnion ==
    cq.pc = "returned"
        => cq.got \subseteq Range(cq.results.folder_content[cq.content_type])

(***************************************************************************)
(* _build_file_system on every remote tree of a root folder, three         *)
(* subfolders and MaxFiles files, whose names may carry a trailing space.  *)
(***************************************************************************)
RootKey == 0

FolderKeys == {1, 2, 3}

FileKeys == 1..MaxFiles

\* "a", "a " and "b".
RawNames == {<<97>>, <<97, 32>>, <<98>>}

\* " r".
RootName == <<32, 114>>

\* A remote tree: the parent folder and the name of every subfolder and
\* file, and whether the service lists the entries of a folder by ascending
\* or by descending key.  Within a folder the service keeps the names of the
\* subfolders distinct, and those of the files.
Trees ==
    {t \in [fparent : [FolderKeys -> {RootKey} \cup FolderKeys],
            fname : [FolderKeys -> RawNames],
            xparent : [FileKeys -> {RootKey} \cup FolderKeys],
            xname : [FileKeys -> RawNames],
            rev : BOOLEAN] :
        /\ \A i \in FolderKeys : t.fparent[i] < i
        /\ \A i, j \in FolderKeys :
              (i # j /\ t.fparent[i] = t.fparent[j]) => t.fname[i] # t.fname[j]
        /\ \A i, j \in FileKeys :
              (i # j /\ t.xparent[i] = t.xparent[j]) => t.xname[i] # t.xname[j]}

RECURSIVE Ascending(_)
Ascending(S) ==
    IF S = {} THEN <<>>
    ELSE LET m == CHOOSE x \in S : \A y \in S : x <= y
         IN  <<m>> \o Ascending(S \ {m})

Reverse(s) == [i \in 1..Len(s) |-> s[Len(s) + 1 - i]]

Listed(t, S) == IF t.rev THEN Reverse(Ascending(S)) ELSE Ascending(S)

SubfoldersOf(t, k) == {i \in FolderKeys : t.fparent[i] = k}

FilesOf(t, k) == {i \in FileKeys : t.xparent[i] = k}

TreeFolderInfo(t, i) ==
    [folderkey |-> i, name |-> IF i = RootKey THEN RootName ELSE t.fname[i], created |-> i,
     file_count |-> Cardinality(FilesOf(t, i)),
     folder_count |-> Cardinality(SubfoldersOf(t, i))]

TreeFileInfo(t, i) ==
    [quickkey |-> i, filename |-> t.xname[i], created |-> i, size |-> 1]

\* The listings of the service for the tree: one chunk per folder.
OneChunk(entries) ==
    IF entries = <<>> THEN <<>> ELSE <<[entries |-> entries, more |-> "no"]>>

TreeServer(t) ==
    [root |-> TreeFolderInfo(t, RootKey),
     files |-> [k \in {RootKey} \cup FolderKeys |->
                  LET l == Listed(t, FilesOf(t, k))
                  IN  OneChunk([n \in DOMAIN l |-> TreeFileInfo(t, l[n])])],
     folders |-> [k \in {RootKey} \cup FolderKeys |->
                  LET l == Listed(t, SubfoldersOf(t, k))
                  IN  OneChunk([n \in DOMAIN l |-> TreeFolderInfo(t, l[n])])]]

InitTree ==
    /\ retries = 0
    /\ aborted = FALSE
    /\ net = {o \in QueryOutcomes : o.exc = NoExc}
    /\ \E t \in Trees : srv = TreeServer(t)
    /\ q = QueryIdle
    /\ qh = QueryHistStart
    /\ cq = ChunkIdle
    /\ bt = [BuildIdle EXCEPT !.pc = "start"]
    /\ opt = NoOptions
    /\ fs = NoFiles
    /\ dl = NoDownloads
    /\ du = UrlIdle
    /\ sem = NoSemaphore
    /\ fold = FolderIdle
    /\ dnet = NoDownloadNet

NextTree ==
    BuildAnswered

SpecTree == InitTree /\ [][NextTree]_vars

(***************************************************************************)
(* Properties of _build_file_system.                                       *)
(***************************************************************************)
\* The entries the service lists under a folder.
ListedEntries(content_type, k) ==
    UNION {Range(srv[content_type][k][n].entries) : n \in DOMAIN srv[content_type][k]}

\* The folder whose listing holds the subfolder of key i.
ParentKeyOf(i) ==
    CHOOSE k \in DOMAIN srv.folders : \E e \in ListedEntries("folders", k) : e.folderkey = i

\* The local path of a remote folder: that of its parent, then its name
\* without the surrounding whitespace.
RECURSIVE FolderPath(_)
FolderPath(e) ==
    IF e.folderkey = srv.root.folderkey THEN Join(DestBase, Strip(srv.root.name))
    ELSE LET k == ParentKeyOf(e.folderkey)
             parent == IF k = srv.root.folderkey THEN srv.root
                       ELSE CHOOSE f \in ListedEntries("folders", ParentKeyOf(k)) :
                                f.folderkey = k
         IN  Join(FolderPath(parent), Strip(e.name))

AllFolders ==
    {srv.root} \cup UNION {ListedEntries("folders", k) : k \in DOMAIN srv.folders}

\* The local paths of everything the remote tree holds.
TreePaths ==
    {FolderPath(e) : e \in AllFolders}
    \cup UNION {{Join(FolderPath(e), Strip(x.filename)) :
                    x \in ListedEntries("files", e.folderkey)} : e \in AllFolders}

\* C8: the keys of the mapping that _build_file_system returns are pairwise
\* distinct and come in ascending order, the order being that of the paths
\* (component by component, each component as a string); the keys are the
\* paths of the remote tree, so that their order does not depend on the order
\* in which the service listed files and subfolders.
C8_KeysDistinctAndSorted ==
    bt.pc = "returned"
        => LET m == bt.sorted_mapping
           IN  /\ \A i, j \in DOMAIN m : i < j => PathLess(m[i].k, m[j].k)
               /\ Range(Keys(m)) = TreePaths

C8_Witness ==
    /\ bt.pc = "returned"
    /\ Len(bt.sorted_mapping) >= 5
    /\ \E k \in DOMAIN srv.folders :
          /\ srv.folders[k] # <<>>
          /\ Len(srv.folders[k][1].entries) >= 2
          /\ srv.folders[k][1].entries[1].folderkey > srv.folders[k][1].entries[2].folderkey

\* C9: in the mapping that _build_file_system returns, the parent path of
\* every entry other than the root is a key that maps to a folder node, and
\* the root key is dest_base/<root folder name>.
C9_ParentsAreFolderKeys ==
    bt.pc = "returned"
        => LET m == bt.sorted_mapping
               root_path == Join(DestBase, Strip(srv.root.name))
           IN  /\ HasKey(m, root_path)
               /\ \A i \in DOMAIN m :
                     m[i].k # root_path
                       => /\ HasKey(m, Parent(m[i].k))
                          /\ ~IsFileNode(Lookup(m, Parent(m[i].k)))

(***************************************************************************)
(* download_url on the link of a folder: the folder info, the mapping, the *)
(* batch of tasks behind the semaphore and their downloads.                *)
(***************************************************************************)
\* A folder of n files "a", "b", ..., the later the name the earlier
\* created; when they are two or more the folder is nested: the last of them
\* is in the subfolder "s".
Batches == {[n |-> n, nested |-> n >= 2] : n \in 0..MaxTasks}

BatchFile(b, i) ==
    [quickkey |-> i, filename |-> <<96 + i>>, created |-> b.n + 1 - i,
     size |-> 1, links |-> [normal_download |-> i]]

BatchServer(b) ==
    LET inner == IF b.nested /\ b.n > 0 THEN {b.n} ELSE {}
        outer == (1..b.n) \ inner
        listing(S) == LET l == Ascending(S)
                      IN  OneChunk([i \in DOMAIN l |-> BatchFile(b, l[i])])
        sub == [folderkey |-> 1, name |-> <<115>>, created |-> 0,
                file_count |-> Cardinality(inner), folder_count |-> 0]
    IN  [root |-> [folderkey |-> RootKey, name |-> RootName, created |-> 0,
                   file_count |-> Cardinality(outer),
                   folder_count |-> IF b.nested THEN 1 ELSE 0],
         files |-> (RootKey :> listing(outer)) @@ (1 :> listing(inner)),
         folders |-> (RootKey :> IF b.nested THEN OneChunk(<<sub>>) ELSE <<>>) @@ (1 :> <<>>),
         info |-> <<>>]

\* The answers to the queries of a batch: no response, or the envelope of a
\* success.
BatchNet ==
    {o \in QueryOutcomes :
        \/ o.r = NoResponse
        \/ o.r = 200 /\ o.exc = NoExc /\ o.body.keys = {"response"}}

\* The answers to the download requests of a batch: the page with the link,
\* then the body of the file; in a batch of one or two files the request of
\* file "a" may time out and the iteration of its body may fail.
BatchDownloadNet(b) ==
    [first |-> {FirstAnswer("none", 200, "none", FALSE, TRUE, TRUE, <<>>),
                FirstAnswer("TimeoutError", NoResponse, "none", FALSE, FALSE, FALSE, <<>>)},
     second |-> {[raise |-> "none", status |-> 200, body |-> << <<1>> >>]},
     stream |-> {"TimeoutError"},
     flaky |-> IF b.n <= 2 THEN {1} ELSE {}, endless |-> FALSE]

InitFolder ==
    /\ retries \in 0..MaxRetries
    /\ aborted = FALSE
    /\ net = BatchNet
    /\ \E b \in Batches :
          /\ srv = BatchServer(b)
          /\ dnet = BatchDownloadNet(b)
    /\ q = QueryIdle
    /\ qh = QueryHistStart
    /\ cq = ChunkIdle
    /\ bt = BuildIdle
    /\ \E jobs \in 1..MaxJobs, nc \in BOOLEAN, flt \in {{}, {{1}}} :
          /\ opt = [NoOptions EXCEPT !.noconfirm = nc, !.max_jobs = jobs, !.filters = flt]
          \* an attended run finds "b" there already
          /\ fs = [files |-> (Append(RootPath(srv.root), <<98>>) :>
                                IF nc THEN NoFile ELSE [exists |-> TRUE, content |-> <<1>>]),
                   dirs |-> {DestBase}]
    /\ dl = NoDownloads
    /\ du = UrlFrame("start", ParsedUrl(RootKey, NoKey, <<114>>))
    /\ sem = NoSemaphore
    /\ fold = FolderIdle

NextFolder ==
    \/ UFolder
    \/ FInfo
    \/ FInfoRaised
    \/ FBuildRaised
    \/ FScan
    \/ FilterNext
    \/ FilterPrompt
    \/ FSchedule
    \/ FGather
    \/ BQuery
    \/ BAnswer
    \/ BRaise
    \/ CQuery
    \/ CMerge
    \/ CRaise
    \/ QAttempt
    \/ QExcept
    \/ QSleep
    \/ QRaise
    \/ \E t \in DOMAIN dl :
        \/ TStart(t)
        \/ DEnter(t)
        \/ DPrompt(t)
        \/ DRequest(t)
        \/ DResolve(t)
        \/ DOpen(t)
        \/ DChunk(t)
        \/ DStreamEnd(t)
        \/ DStreamFail(t)
        \/ DExcept(t)
        \/ DSleep(t)
        \/ DVerify(t)
    \/ Abort

SpecFolder == InitFolder /\ [][NextFolder]_vars

(***************************************************************************)
(* Properties of the batch of tasks.                                       *)
(***************************************************************************)
\* The task is inside _download: it holds a permit of the semaphore.
Inside(t) == dl[t].pc \notin {"created", "gate", "done"}

InsideTasks == {t \in DOMAIN dl : Inside(t)}

\* C1: with max_jobs = K at most K tasks are inside _download, whatever the
\* number of files and the interleaving; every other task that is not done
\* has not passed the semaphore (it has not begun, or it waits in the queue
\* of the semaphore) and has issued no request; and a task waits only while
\* K tasks are inside.
C1_AtMostMaxJobsInside ==
    /\ Cardinality(InsideTasks) <= opt.max_jobs
    /\ \A t \in DOMAIN dl :
          dl[t].pc \in {"created", "gate"} => (dl[t].reqs = 0 /\ ~dl[t].modified)
    /\ {t \in DOMAIN dl : dl[t].pc = "gate"} = Range(sem.waiters)
    /\ sem.waiters # <<>> => Cardinality(InsideTasks) = opt.max_jobs

\* Two tasks are inside _download, one of them after a request, and a third
\* waits at the semaphore.
C1_Witness ==
    /\ opt.max_jobs = 2
    /\ Cardinality(InsideTasks) = 2
    /\ \E t \in InsideTasks : dl[t].reqs > 0
    /\ \E t \in DOMAIN dl : dl[t].pc = "gate"

(***************************************************************************)
(* Properties of the error of an exhausted query.                          *)
(***************************************************************************)
\* The running _query_api call has counted retries + 1 failures and no
\* abort was seen.
Exhausted ==
    /\ q.pc \in {"while", "sleep"}
    /\ qh.fails - qh.free = retries + 1

\* How far up the ConnectionError of _query_api has come: 1 out of
\* _query_api, 2 out of _wrap_chunked_api_folder_query, 3 out of
\* _build_file_system, 4 out of download_url; 0 when there is none.
ErrorLevel ==
    IF du.pc = "raised" /\ du.exc.cls = "ConnectionError" THEN 4
    ELSE IF bt.pc = "raised" /\ bt.exc.cls = "ConnectionError" THEN 3
    ELSE IF cq.pc = "raised" /\ cq.exc.cls = "ConnectionError" THEN 2
    ELSE IF q.pc = "raised" /\ q.result = "ConnectionError" THEN 1
    ELSE 0

\* C5: a _query_api call that counted retries + 1 failures, no abort
\* signalled, raises ConnectionError as its next step, with no further
\* request and no further sleep; from then on the error only moves up,
\* through callers that neither catch it nor query again, until
\* download_url ends with it; and no download task exists for the
\* operation.
C5_ExhaustedQueryIsFatal ==
    /\ [](Exhausted => ENABLED QRaise)
    /\ [](ErrorLevel \in 1..3 => ENABLED (CRaise \/ BRaise \/ FBuildRaised \/ FInfoRaised))
    /\ [](ErrorLevel > 0 => dl = NoDownloads)
    /\ [][ /\ (Exhausted /\ q' # q) =>
                (q'.pc = "raised" /\ q'.result = "ConnectionError" /\ qh' = qh)
           /\ ErrorLevel > 0 =>
                (ErrorLevel' >= ErrorLevel /\ q'.pc \in {"raised", "idle"}
                 /\ (cq' = cq \/ cq'.pc \in {"raised", "idle"}) /\ dl' = NoDownloads)
         ]_vars

\* download_url on the link of a folder ended with the ConnectionError of a
\* query that _build_file_system made.
C5_Witness ==
    /\ ErrorLevel = 4
    /\ bt.pc = "raised"
    /\ ~aborted

(***************************************************************************)
(* _filter_folder_files on the files of a folder, for every link of the    *)
(* folder (naming one of its files or none), every set of filters and      *)
(* every answer of the user.                                               *)
(***************************************************************************)
\* The n files "a", "b", ... of the destination directory, in the order of
\* their creation.
FilterFiles(n) ==
    [i \in 1..n |->
        [k |-> Append(DestBase, <<96 + i>>),
         v |-> [quickkey |-> i, filename |-> <<96 + i>>, created |-> i, size |-> 1,
                links |-> [normal_download |-> i]]]]

FilterSets == {{}, {{1}}, {{2}}, {{1}, {2}}}

InitFilter ==
    /\ retries = 0
    /\ aborted = FALSE
    /\ net = {}
    /\ srv = NoServer
    /\ q = QueryIdle
    /\ qh = QueryHistStart
    /\ cq = ChunkIdle
    /\ bt = BuildIdle
    /\ \E nc \in BOOLEAN, flt \in FilterSets :
          opt = [NoOptions EXCEPT !.noconfirm = nc, !.filters = flt]
    /\ fs = NoFiles
    /\ dl = NoDownloads
    /\ \E file_key \in {NoKey} \cup 1..MaxTasks :
          du = UrlFrame("folder", ParsedUrl(RootKey, file_key, <<114>>))
    /\ sem = NoSemaphore
    /\ \E n \in 0..MaxTasks :
          fold = [FolderIdle EXCEPT !.pc = "filter", !.files = FilterFiles(n)]
    /\ dnet = NoDownloadNet

NextFilter ==
    \/ FilterNext
    \/ FilterPrompt
    \/ Abort

SpecFilter == InitFilter /\ [][NextFilter]_vars

(***************************************************************************)
(* Properties of the processing subset.                                    *)
(***************************************************************************)
\* The paths of the files whose quickkey is the file key of the link.
PinnedMatches ==
    {fold.files[i].k :
        i \in {j \in DOMAIN fold.files : fold.files[j].v.quickkey = du.parsed.file_key}}

Discovered == FilesByCreated(BuildFileSystem(srv.root))

Unmatched ==
    {e \in Range(Discovered) : \A flt \in opt.filters : e.v.quickkey \notin flt}

\* _filter_folder_files has returned.
Filtered == fold.pc \in {"filtered", "gather", "returned"}

\* C13 as stated: in a folder download with no pinned file key and a
\* non-empty filter set, a discovered file is in the processing subset if
\* and only if no configured filter matches it, and no download request is
\* ever issued for the URL of an excluded file.
C13_SubsetIsTheUnmatchedFiles ==
    (du.parsed.file_key = NoKey /\ opt.filters # {}) =>
        /\ Filtered => fold.proc_queue = {e.k : e \in Unmatched}
        /\ \A t \in DOMAIN dl :
              dl[t].reqs > 0 =>
                  dl[t].params.file_url \in {e.v.links.normal_download : e \in Unmatched}

\* C13 amended: in such a download a file a configured filter matches is
\* never in the processing subset and no download request is ever issued
\* for its URL; and every file no filter matches is in the subset, unless
\* _filter_folder_files found the abort flag set and returned early (no
\* task is created then).
C13_SubsetIsTheUnmatchedFilesUnlessAborted ==
    (du.parsed.file_key = NoKey /\ opt.filters # {}) =>
        /\ Filtered => fold.proc_queue \subseteq {e.k : e \in Unmatched}
        /\ (\/ fold.pc = "filtered" /\ ~fold.broke
            \/ fold.pc = "gather"
            \/ fold.pc = "returned" /\ du.result # <<>>) =>
                fold.proc_queue = {e.k : e \in Unmatched}
        /\ (fold.pc = "filtered" /\ fold.broke) => aborted
        /\ \A t \in DOMAIN dl :
              /\ dl[t].params.output_path \in fold.proc_queue
              /\ dl[t].reqs > 0 =>
                    dl[t].params.file_url \in {e.v.links.normal_download : e \in Unmatched}

\* A filter matches one of the files of the folder, and a task of another
\* file has issued a request.
C13_Witness ==
    /\ du.parsed.file_key = NoKey
    /\ opt.filters # {}
    /\ fold.pc = "gather"
    /\ Unmatched # Range(Discovered)
    /\ \E t \in DOMAIN dl : dl[t].reqs > 0

(***************************************************************************)
(* Properties of the rate limiter.                                         *)
(***************************************************************************)
\* The requests of a log, and the places of a log where a request stands
\* without a completed until_ready of its own, for the same URL, right
\* before it.
RequestsOf(log) == {i \in DOMAIN log : log[i].op = "request"}

Unqueued(log) ==
    {i \in RequestsOf(log) :
        ~(/\ i > 1
          /\ log[i - 1] = [op |-> "until_ready", url |-> log[i].url]
          /\ i > 2 => log[i - 2].op = "request")}

\* The logs of the running calls, with the number of requests each issued.
Logs ==
    {[log |-> qh.log, reqs |-> qh.reqs]}
    \cup {[log |-> dl[t].log, reqs |-> dl[t].reqs] : t \in DOMAIN dl}

\* C14: when rate limiting is not disabled, every HTTP request the engine
\* issues (the API queries, the first request to a file URL and the
\* follow-up request to the resolved download URL) is preceded by its own
\* completed RequestQueue.until_ready call for the URL of that request;
\* when nodelay is true, until_ready is never called.
C14_EveryRequestWaitsForTheQueue ==
    \A l \in Logs :
        /\ Cardinality(RequestsOf(l.log)) = l.reqs
        /\ IF opt.nodelay
           THEN RequestsOf(l.log) = DOMAIN l.log
           ELSE Unqueued(l.log) = {} /\ Len(l.log) = 2 * l.reqs

\* With rate limiting on, a _download call has sent the request of the file
\* URL and the request of the link its page held.
C14_Witness ==
    /\ ~opt.nodelay
    /\ \E t \in DOMAIN dl :
          /\ dl[t].reqs = 2
          /\ dl[t].log[2].url = dl[t].params.file_url
          /\ dl[t].log[4].url = RealUrl(dl[t].params.file_url)

(***************************************************************************)
(* Properties of the results of a batch.                                   *)
(***************************************************************************)
\* The _download call of task t left its retry loop with the budget
\* exhausted: its last retries + 1 attempts raised.
Failed(t) == dl[t].pc = "done" /\ dl[t].try_num > retries

\* C15: in a folder download, a file whose download failed (every attempt
\* of its retry loop raised and the budget was exhausted) yields the empty
\* path in its slot of the result tuple, no exception of the attempts
\* escapes _download, and every other task of the batch still runs to its
\* own completion.
C15_FailedFileYieldsEmptyPath ==
    /\ \A t \in DOMAIN dl : dl[t].exc # NoExc => dl[t].pc = "except"
    /\ fold.pc = "gather" => du.pc = "folder"
    /\ (fold.pc = "returned" /\ dl # NoDownloads) =>
          /\ du.pc = "returned"
          /\ Len(du.result) = Len(dl)
          /\ \A t \in DOMAIN dl :
                /\ dl[t].pc = "done"
                /\ Failed(t) => du.result[t] = EmptyPath

\* C16: the count "Downloaded N / M" reported at the end of a folder
\* download has M equal to the number of attempted files and N equal to the
\* number of them whose result is a valid (non-empty) path, so that N < M
\* whenever a slot of the result holds the empty path.
C16_SummaryCountsValidPaths ==
    (fold.pc = "returned" /\ dl # NoDownloads) =>
        /\ fold.attempted = Len(du.result)
        /\ fold.downloaded =
              Cardinality({t \in DOMAIN du.result : du.result[t] # EmptyPath})
        /\ (\E t \in DOMAIN du.result : du.result[t] = EmptyPath) =>
              fold.downloaded < fold.attempted

(***************************************************************************)
(* Properties of the abort of a folder download.                           *)
(***************************************************************************)
\* C17: if abort() is signalled at any point while download_url is
\* processing a folder (also while an API query of the materialization of
\* the tree is failing and retrying), download_url returns early, with a
\* possibly empty tuple of paths, and never raises because of the abort:
\* the one error the abort can cause is the TypeError of a caller that
\* subscripts the 0 an aborted _query_api returns.
C17_AbortNeverRaises ==
    /\ q.result = "zero" => aborted
    /\ \A frame \in {cq, bt, du} :
          ~(frame.pc = "raised" /\ frame.exc.cls = "TypeError")

(***************************************************************************)
(* Properties of the tasks of a batch.                                     *)
(***************************************************************************)
\* The tasks of the batch were created: gather waits for them or has
\* returned their results.
Scheduled == fold.pc = "gather" \/ (fold.pc = "returned" /\ dl # NoDownloads)

C24_NumsWithinQueue ==
    \A t \in DOMAIN dl :
        /\ dl[t].params.num \in 1..Cardinality(fold.proc_queue)
        /\ dl[t].params.num_orig \in 1..Len(Discovered)
        /\ \A u \in DOMAIN dl :
              u # t => /\ dl[u].params.num # dl[t].params.num
                       /\ dl[u].params.num_orig # dl[t].params.num_orig

(***************************************************************************)
(* download_url up to the choice between the folder and the file, for      *)
(* every URL of a few path segments.                                       *)
(***************************************************************************)
Site == <<"h", "t", "t", "p", "s", ":", "/", "/", "m", ".", "f">>

\* The segments of the URLs: the three words of the lookups, a short key, a
\* key of MinKeyLen characters, one of a character less, and a name with a
\* space.
Segments ==
    {<<"f", "o", "l", "d", "e", "r">>,
     <<"f", "i", "l", "e">>,
     <<"f", "i", "l", "e", "_", "p", "r", "e", "m", "i", "u", "m">>,
     <<"k", "1">>,
     [i \in 1..MinKeyLen |-> "x"],
     [i \in 1..(MinKeyLen - 1) |-> "y"],
     <<"a", " ", "b">>}

RECURSIVE UrlOf(_)
UrlOf(segs) ==
    IF segs = <<>> THEN Site
    ELSE UrlOf(SubSeq(segs, 1, Len(segs) - 1)) \o <<"/">> \o segs[Len(segs)]

Urls == {UrlOf(segs) : segs \in UNION {[1..n -> Segments] : n \in 0..MaxSegments}}

InitParse ==
    /\ retries = 0
    /\ aborted = FALSE
    /\ net = {}
    /\ srv = NoServer
    /\ q = QueryIdle
    /\ qh = QueryHistStart
    /\ cq = ChunkIdle
    /\ bt = BuildIdle
    /\ opt = NoOptions
    /\ fs = NoFiles
    /\ dl = NoDownloads
    /\ \E url \in Urls : du = UrlCall(url)
    /\ sem = NoSemaphore
    /\ fold = FolderIdle
    /\ dnet = NoDownloadNet

NextParse ==
    \/ UParse
    \/ UAssert

SpecParse == InitParse /\ [][NextParse]_vars

(***************************************************************************)
(* Properties of _parse_url.                                               *)
(***************************************************************************)
\* The places of the pieces of a URL that are the word m between two
\* slashes.
MarkersAt(pieces, m) == {i \in 2..(Len(pieces) - 1) : pieces[i] = m}

Least(S) == CHOOSE i \in S : \A j \in S : i <= j

\* A token of at least 14 word characters.
IsKeyToken(key) == Len(key) >= 14 /\ \A i \in DOMAIN key : key[i] \in WordChars

\* C18: _parse_url classifies every URL as follows: a URL of shape
\* .../folder/<key>/<name>/... yields (folderKey = key, fileKey = '',
\* name); a URL of shape .../file/<key>/<name>/... or
\* .../file_premium/<key>/<name>/... yields (folderKey = '', fileKey = key,
\* name) where the returned key is a token of at least 14 word characters;
\* a URL containing none of the three markers, or a file URL with no such
\* key, fails and yields no ParsedUrl.  (Stated for the URLs that hold one
\* kind of marker only; the name of a file URL is compared without its
\* spaces.)
C18_ParseUrlClassifies ==
    (du.pc \in {"parsed", "raised"} /\ "url" \in DOMAIN du) =>
        LET pieces == SplitSlash(du.url)
            folders == MarkersAt(pieces, <<"f", "o", "l", "d", "e", "r">>)
            files == MarkersAt(pieces, <<"f", "i", "l", "e">>)
            premiums == MarkersAt(pieces, <<"f", "i", "l", "e", "_", "p", "r", "e", "m",
                                            "i", "u", "m">>)
            kinds == Cardinality({S \in {folders, files, premiums} : S # {}})
            at == Least(folders \cup files \cup premiums)
        IN  IF kinds = 0 THEN du.pc = "raised"
            ELSE IF kinds > 1 \/ at + 2 > Len(pieces) THEN TRUE
            ELSE IF folders # {}
            THEN /\ du.pc = "parsed"
                 /\ du.parsed = ParsedUrl(pieces[at + 1], <<>>, pieces[at + 2])
            ELSE IF IsKeyToken(pieces[at + 1])
            THEN /\ du.pc = "parsed"
                 /\ du.parsed = ParsedUrl(<<>>, pieces[at + 1], RemoveSpaces(pieces[at + 2]))
            ELSE du.pc = "raised"

(***************************************************************************)
(* download_url on the link that compose_link_v15 makes of a ParsedUrl,    *)
(* for every triple of a few keys and names.                               *)
(***************************************************************************)
\* compose_link_v15 (SITE_PRIMARY is Site here); '' is the invalid link.
ComposeLinkV15(folder_key, file_key, name) ==
    IF name # <<>> /\ (folder_key # <<>> \/ file_key # <<>>)
    THEN IF folder_key # <<>>
         THEN LET link == Site \o <<"/", "f", "o", "l", "d", "e", "r", "/">> \o folder_key
                            \o <<"/">> \o name \o <<"/", "f", "o", "l", "d", "e", "r">>
              IN  IF file_key # <<>>
                  THEN link \o <<"/", "f", "i", "l", "e", "/">> \o file_key
                  ELSE link
         ELSE Site \o <<"/", "f", "i", "l", "e", "/">> \o file_key \o <<"/">> \o name
                \o <<"/", "f", "i", "l", "e">>
    ELSE <<>>

\* The keys and the names of the triples: none, a short key, keys of
\* MinKeyLen characters; none, a name and a name with a space.
LinkKeys ==
    {<<>>, <<"k", "1">>, [i \in 1..MinKeyLen |-> "x"], [i \in 1..MinKeyLen |-> "y"]}

LinkNames == {<<>>, <<"a">>, <<"a", " ", "b">>}

InitLink ==
    /\ retries = 0
    /\ aborted = FALSE
    /\ net = {}
    /\ srv = NoServer
    /\ q = QueryIdle
    /\ qh = QueryHistStart
    /\ cq = ChunkIdle
    /\ bt = BuildIdle
    /\ opt = NoOptions
    /\ fs = NoFiles
    /\ dl = NoDownloads
    /\ \E folder_key \in LinkKeys, file_key \in LinkKeys, name \in LinkNames :
          du = [pc |-> "link", orig |-> ParsedUrl(folder_key, file_key, name)]
    /\ sem = NoSemaphore
    /\ fold = FolderIdle
    /\ dnet = NoDownloadNet

\* Line 105: the link of the triple is composed; download_url is called on
\* it.
ULink ==
    /\ du.pc = "link"
    /\ du' = [orig |-> du.orig]
                @@ UrlCall(ComposeLinkV15(du.orig.folder_key, du.orig.file_key, du.orig.name))
    /\ UNCHANGED <<retries, aborted, net, srv, q, qh, cq, bt, opt, fs, dl, sem, fold, dnet>>

NextLink ==
    \/ ULink
    \/ UParse
    \/ UAssert

SpecLink == InitLink /\ [][NextLink]_vars

\* C28: for every ParsedUrl (folder_key, file_key, name) with a name and at
\* least one key, _parse_url of the link that compose_link_v15 makes of it
\* returns the same triple; a folder link that pins a file is parsed with
\* both keys, so that download_url takes the folder and knows the file.
C28_LinkRoundTrip ==
    (/\ "orig" \in DOMAIN du
     /\ du.pc # "link"
     /\ du.orig.name # <<>>
     /\ du.orig.folder_key # <<>> \/ du.orig.file_key # <<>>) =>
        /\ du.pc # "raised"
        /\ du.pc # "call" => du.parsed = du.orig

(***************************************************************************)
(* One _download call in full mode on a target that does not exist,        *)
(* against a server whose failures need not end.  Every request, read and  *)
(* sleep completes: a step of the call that can be taken is taken.         *)
(***************************************************************************)
InitLoop ==
    /\ retries \in 0..MaxRetries
    /\ aborted = FALSE
    /\ net = {}
    /\ srv = NoServer
    /\ q = QueryIdle
    /\ qh = QueryHistStart
    /\ cq = ChunkIdle
    /\ bt = BuildIdle
    /\ opt = NoOptions
    /\ fs = [files |-> (TargetPath :> NoFile), dirs |-> {DestBase}]
    /\ dl = (1 :> DownloadFrame("enter", DownloadParams(1, 1, 1, TargetPath, 1), FALSE))
    /\ du = UrlIdle
    /\ sem = NoSemaphore
    /\ fold = FolderIdle
    /\ dnet = [AnyDownloadNet({1}) EXCEPT !.endless = TRUE]

NextLoop ==
    \/ DEnter(1)
    \/ DRequest(1)
    \/ DResolve(1)
    \/ DOpen(1)
    \/ DChunk(1)
    \/ DStreamEnd(1)
    \/ DStreamFail(1)
    \/ DExcept(1)
    \/ DSleep(1)
    \/ DVerify(1)

SpecLoop == InitLoop /\ [][NextLoop]_vars /\ WF_vars(NextLoop)

\* C29: every _download call in full mode eventually leaves its retry loop
\* and returns, whatever the server answers: also when it answers every
\* attempt with 403 or another error status, and when every attempt fails
\* after it delivered a chunk.
C29_DownloadReturns ==
    <>(dl[1].pc = "done")

====
